---- MODULE Spec2Model ----
(***************************************************************************)
(* TagSync (CarlJKurtz/tag-sync): the reconciliation engine.               *)
(*                                                                         *)
(* Two specifications over one set of variables:                           *)
(*   SpecSched  the run-coalescing scheduler of SyncEngine (startRun,      *)
(*              runLoop, enqueueSync, the debounce and poll timers,        *)
(*              togglePause, dispose), with a pass reduced to its          *)
(*              suspension points;                                         *)
(*   Spec       one engine's passes (pull, scope, push, save) over a       *)
(*              local vault, a remote folder and the state store, with     *)
(*              the user and other devices editing in between.             *)
(*                                                                         *)
(* JavaScript runs a callback, and the promise continuations it makes      *)
(* ready, to completion before the next timer, command or vault event is   *)
(* delivered.  An action is therefore the code from one delivery or one    *)
(* completed I/O up to the next await of real I/O.                         *)
(***************************************************************************)
EXTENDS Integers, Sequences, FiniteSets, TLC

NULL == "null"

Min(a, b) == IF a < b THEN a ELSE b

(***************************************************************************)
(* Bounds of the model.                                                    *)
(***************************************************************************)
\* Saturation of the observer's count of triggers that arrive during a pass.
MaxTrig == 2
\* Saturation of the observer's count of notifications in one burst.
MaxBurst == 2

(***************************************************************************)
(* Program constants.                                                      *)
(***************************************************************************)
\* enqueueSync: window.setTimeout(..., 750)
DebounceMs == 750

\* The instants the model distinguishes: time advances by one of these.
TickSteps == {250, 500}

VARIABLES
  \* ---- SyncEngine fields ----
  isPaused,              \* private isPaused
  isRunning,             \* private isRunning
  rerunRequested,        \* private rerunRequested
  runPromise,            \* private runPromise: TRUE when non-null
  debounceTimer,         \* private debounceTimer: TRUE when non-null
  pollTimer,             \* private pollTimer: TRUE when non-null
  forceUploadAllTagged,  \* private forceUploadAllTagged
  \* ---- the engine's surroundings, as the scheduler sees them ----
  status,                \* the last string given to onStatusChange
  settings,              \* getSettings(): which required settings are present
  cursorSet,             \* stateStore.getCursor() !== undefined
  runs,                  \* the runLoop activations suspended in a pass
  timeouts,              \* window: live setTimeout timers, ms left of each
  intervals,             \* window: number of live setInterval timers
  life,                  \* "new", "ready", "disposing", "disposed"
  \* ---- observers (no effect on the program) ----
  obs,                   \* what the last scheduler step did
  gh,                    \* running counts for the scheduler claims
  \* ---- the vault, the remote folder and the store (Spec) ----
  local,                 \* vault: path -> file (content, mtime) or NoFile
  copies,                \* vault: path -> contents of its conflict copies
  remote,                \* Dropbox: path -> current metadata and content
  remoteSeq,             \* Dropbox: number of changes so far (revisions)
  clock,                 \* the device's clock, which stamps local writes
  store,                 \* StateStore.state: cursor and files
  saved,                 \* the state last handed to saveStateFn
  pass,                  \* the pass in progress: position and loop state
  env,                   \* counts of the surroundings' steps (bounded)
  ev,                    \* observer: what the last engine step did
  \* ---- DropboxClient (SpecFetch, SpecList) ----
  fetchCall,             \* the call of fetchWithRetry in progress
  listCall,              \* the call of listDelta in progress
  \* ---- StateStore on its own (SpecStore) ----
  storeCall,             \* the store's objects and the save() in progress
  \* ---- pure functions (SpecTag, SpecScope) ----
  tagCall,               \* the last call of normalizeTag
  scopeCall,             \* the last call of buildTaggedFileSet
  \* ---- DropboxClient.requestOAuthToken (SpecRetry) ----
  oauthCall,             \* the call of requestOAuthToken in progress
  \* ---- SyncEngine.ignoredPaths and handleVaultEvent (SpecEcho) ----
  echoCall,              \* the clock, ignoredPaths, and the last delivery
  \* ---- createConflictCopy and the path functions (SpecCopy, SpecPath) ----
  copyCall,              \* the last call of createConflictCopy
  pathCall               \* the last call of toRemotePath and toLocalPath

schedVars == <<isPaused, isRunning, rerunRequested, runPromise, debounceTimer,
               pollTimer, forceUploadAllTagged, status, settings, cursorSet,
               runs, timeouts, intervals, life, obs, gh>>

syncVars == <<local, copies, remote, remoteSeq, clock, store, saved, pass, env, ev>>

clientVars == <<fetchCall, listCall, storeCall, tagCall, scopeCall, oauthCall,
                echoCall, copyCall, pathCall>>

vars == <<schedVars, syncVars, clientVars>>

(***************************************************************************)
(* The data of a pass: paths, contents, files, per-file state.             *)
(***************************************************************************)
\* Bound of the surroundings: the number of local edits and deletions by the
\* user, changes made to the remote folder by other devices, and remote calls
\* that fail, taken together.
MaxOps == 3

\* The markdown documents of the vault, in the order the vault lists them.
\* They are ordinary notes under the remote base path: none has the name of
\* a conflict copy, so the early returns of lines 744-750 and 785-791 and the
\* branch of lines 872-876 are not taken.  The conflict copies of a document
\* are kept apart, in copies.
DocList == <<"a.md">>
Docs == {DocList[i] : i \in 1..Len(DocList)}

\* A content is its text, whether it carries one of the configured sync tags,
\* and whether its size exceeds maxUploadSizeMB.
Content(body, tagged, big) == [body |-> body, tagged |-> tagged, big |-> big]
NoContent == Content("", FALSE, FALSE)
UserWrites == {Content("x", TRUE, FALSE), Content("y", FALSE, FALSE),
               Content("z", TRUE, TRUE)}
RemoteWrites == {Content("x", TRUE, FALSE), Content("w", TRUE, FALSE)}
\* server_modified of a change made by another device.
RemoteTimes == 0..(MaxOps - 1)

NoFile == [present |-> FALSE, content |-> NoContent, mtime |-> 0]
File(content, mtime) == [present |-> TRUE, content |-> content, mtime |-> mtime]

\* A remote path: rev 0 is a path that never existed; a deleted path keeps
\* the number of the change that deleted it.
NoRemote == [present |-> FALSE, content |-> NoContent, rev |-> 0, mod |-> 0,
             by |-> "none"]

\* FileSyncState; dropboxRev 0 and lastRemoteModified -1 stand for undefined.
NoState == [tracked |-> FALSE, dropboxRev |-> 0, lastLocalMtime |-> 0,
            lastRemoteModified |-> 0 - 1]
FileState(rev, mtime, rmod) ==
  [tracked |-> TRUE, dropboxRev |-> rev, lastLocalMtime |-> mtime,
   lastRemoteModified |-> rmod]

\* DEFAULT_SYNC_STATE: cursor undefined, no files.
NoCursor == [set |-> FALSE, pos |-> 0]
DefaultSyncState == [cursor |-> NoCursor, files |-> [p \in Docs |-> NoState]]

\* The pass in progress.  cursor is the cursor listDelta was called with.
\* The last four fields observe the pass: whether it lists the whole folder,
\* whether it follows a pass that ended without raising with nothing changed
\* by the user or another device since that pass started, whether it has
\* made a remote call that transfers or deletes, and whether it has changed
\* the per-file state.
IdlePass == [pc |-> "idle", queue |-> <<>>, newCursor |-> NoCursor,
             tracked |-> <<>>, scope |-> {}, scopeQ |-> <<>>, force |-> FALSE,
             raised |-> FALSE, cursor |-> NoCursor, fresh |-> FALSE,
             quiet |-> FALSE, second |-> FALSE, called |-> FALSE,
             touched |-> FALSE]

NoEntry == [path |-> "", tag |-> "none", rev |-> 0]

NoEv == [op |-> "none", branch |-> "none", path |-> "", entry |-> NoEntry,
         failedAt |-> "none", nUpload |-> 0, nDownload |-> 0, nCopy |-> 0,
         nLocalWrite |-> 0, nLocalDelete |-> 0, nRemoteDelete |-> 0,
         upContent |-> NoContent, inScope |-> FALSE,
         preLocal |-> NoFile, preRemote |-> NoRemote, preState |-> NoState,
         preCopies |-> <<>>, preEdited |-> FALSE, forced |-> FALSE,
         done |-> [raised |-> FALSE, second |-> FALSE, called |-> FALSE,
                   touched |-> FALSE, force |-> FALSE, fresh |-> FALSE]]

\* The vault, the remote folder and the store before anything happened.
\* ---- DropboxClient: no call in progress ----
MaxAttempts == 6

\* the Retry-After header of a response: absent, a number of seconds, or a
\* text that is not a number (an HTTP date)
NoHeader == [kind |-> "absent", value |-> 0]

NoResponse == [kind |-> "none", status |-> 0, body |-> "", retryAfter |-> NoHeader]

\* A call of fetchWithRetry: its options and locals, its outcome, and what
\* the observer counts (fetches issued, tokens obtained, 401s received,
\* whether every fetch so far threw, whether every fetch so far was answered
\* 5xx, the last answer and the attempt it answered).
IdleFetch == [pc |-> "idle", refreshable |-> FALSE, allow |-> "none",
              attempt |-> 1, refreshedAfter401 |-> FALSE,
              lastNetworkError |-> FALSE, accessToken |-> "none",
              result |-> NoResponse, fetches |-> 0, refreshes |-> 0,
              n401 |-> 0, allThrew |-> TRUE, all5xx |-> TRUE,
              last |-> NoResponse, lastAttempt |-> 0, delay |-> 0]

\* A call of listDelta: the request awaited ("list" for list_folder,
\* "continue" for list_folder/continue) and the cursor sent with it, the
\* entries and cursor of the listDeltaInternal in progress, whether that is
\* the fresh listing after a cursor reset, and the outcome.  The observer
\* keeps the pages the server gave to the listing in progress.
NoListResult == [kind |-> "none", entries |-> <<>>, cursor |-> 0]

IdleList == [pc |-> "idle", request |-> "none", sent |-> 0, hadCursor |-> FALSE,
             entries |-> <<>>, nextCursor |-> 0, recovering |-> FALSE,
             result |-> NoListResult, served |-> <<>>, pages |-> 0,
             nextId |-> 1, resets |-> 0]

\* A StateStore on its own: this.state (its files field refers to one of two
\* mapping objects), the argument of the saveStateFn call in progress, and
\* what that call wrote.  atCall observes the state when save() was called.
\* host is the plugin's storedData.syncState, a state object or undefined;
\* committed observes the pair that was loaded or last given to save(), and
\* hostWrite what the last saveData(storedData) of the plugin wrote.
IdleStore == [pc |-> "idle",
              state |-> [cursor |-> NoCursor, files |-> 1],
              maps |-> <<DefaultSyncState.files, DefaultSyncState.files>>,
              arg |-> [cursor |-> NoCursor, files |-> 1],
              atCall |-> DefaultSyncState, written |-> DefaultSyncState,
              dirty |-> FALSE, saves |-> 0,
              loaded |-> FALSE,
              host |-> [present |-> FALSE, cursor |-> NoCursor, files |-> 2],
              committed |-> DefaultSyncState,
              hostWrite |-> [done |-> FALSE, value |-> DefaultSyncState,
                             committed |-> DefaultSyncState]]

\* No call of normalizeTag yet; a string is the sequence of its characters.
IdleTag == [pc |-> "idle", input |-> <<>>, output |-> <<>>]

\* No call of buildTaggedFileSet yet.
IdleScope == [pc |-> "idle", tagsToSync |-> {}, ignoreGlobs |-> {},
              files |-> <<>>, result |-> {}]

\* A call of requestOAuthToken: its locals, its outcome, and what the
\* observer counts, as for fetchWithRetry.
IdleOAuth == [pc |-> "idle", attempt |-> 1, lastNetworkError |-> FALSE,
              result |-> NoResponse, fetches |-> 0, delay |-> 0]

\* SyncEngine.ignoredPaths with the clock it is read against, and what the
\* observer keeps: when the engine last wrote each path, and the last
\* delivery with whether it called enqueueSync.
EchoPaths == {<<"a", ".md">>, <<"b", ".MD">>, <<"n", ".txt">>}

NotMarked == -1

NoDelivery == [kind |-> "none", path |-> <<>>, oldPath |-> <<>>,
               enqueued |-> "none", marked |-> FALSE, window |-> FALSE]

IdleEcho == [now |-> 0, steps |-> 0,
             ignoredPaths |-> [p \in EchoPaths |-> NotMarked],
             lastWrite |-> [p \in EchoPaths |-> NotMarked],
             obs |-> NoDelivery]

\* A call of createConflictCopy: the vault's files before and after, the
\* arguments, the path buildConflictPath made and the path created.
IdleCopy == [pc |-> "idle", vault |-> {}, before |-> {}, localPath |-> <<>>,
             vaultId |-> <<>>, conflictPath |-> <<>>, finalPath |-> <<>>]

\* A call of the path functions: the arguments and the results; a result of
\* toLocalPath is null or a path.
Null == [null |-> TRUE, path |-> <<>>]

IdlePath == [pc |-> "idle", base |-> <<>>, localPath |-> <<>>,
             remotePath |-> <<>>, toRemote |-> <<>>, toLocal |-> Null]

ClientVarsInit ==
  /\ fetchCall = IdleFetch
  /\ listCall = IdleList
  /\ storeCall = IdleStore
  /\ tagCall = IdleTag
  /\ scopeCall = IdleScope
  /\ oauthCall = IdleOAuth
  /\ echoCall = IdleEcho
  /\ copyCall = IdleCopy
  /\ pathCall = IdlePath

\* The surroundings as observed: the events so far, whether the last pass
\* ended without raising and undisturbed, and what a resync request still
\* waits for (a listing of the whole folder, a forced push).
\* edited tells, for each path, whether the user has written the local file
\* since the engine last uploaded or downloaded that path.
NoEnv == [ops |-> 0, clean |-> FALSE, needFresh |-> FALSE, needForce |-> FALSE,
          edited |-> [p \in Docs |-> FALSE],
          transferred |-> [p \in Docs |-> FALSE]]

SyncVarsInit ==
  /\ local = [p \in Docs |-> NoFile]
  /\ copies = [p \in Docs |-> <<>>]
  /\ remote = [p \in Docs |-> NoRemote]
  /\ remoteSeq = 0
  /\ clock = 0
  /\ store = DefaultSyncState
  /\ saved = DefaultSyncState
  /\ pass = IdlePass
  /\ env = NoEnv
  /\ ev = NoEv

(***************************************************************************)
(* The scheduler state as one record, so that a handler is the composition *)
(* of the functions it calls.                                              *)
(***************************************************************************)
S == [isPaused |-> isPaused, isRunning |-> isRunning,
      rerunRequested |-> rerunRequested, runPromise |-> runPromise,
      debounceTimer |-> debounceTimer, pollTimer |-> pollTimer,
      forceUploadAllTagged |-> forceUploadAllTagged, status |-> status,
      settings |-> settings, cursorSet |-> cursorSet, runs |-> runs,
      timeouts |-> timeouts, intervals |-> intervals, life |-> life,
      obs |-> obs, gh |-> gh]

NoObs == [kind |-> "none", busy |-> FALSE, started |-> FALSE, trigs |-> 0,
          raised |-> FALSE, again |-> FALSE, elapsed |-> 0, settled |-> "none"]

Later == DebounceMs + 1

InitGh == [trigs |-> 0, elapsed |-> Later, burst |-> 0, fires |-> 0,
           cancelled |-> FALSE, immediate |-> FALSE]

\* dispose() returns once the run it awaited has settled.
Settle(s) ==
  IF s.life = "disposing" /\ ~s.runPromise THEN [s EXCEPT !.life = "disposed"] ELSE s

Commit(s0) ==
  LET s == Settle(s0) IN
  /\ isPaused' = s.isPaused
  /\ isRunning' = s.isRunning
  /\ rerunRequested' = s.rerunRequested
  /\ runPromise' = s.runPromise
  /\ debounceTimer' = s.debounceTimer
  /\ pollTimer' = s.pollTimer
  /\ forceUploadAllTagged' = s.forceUploadAllTagged
  /\ status' = s.status
  /\ settings' = s.settings
  /\ cursorSet' = s.cursorSet
  /\ runs' = s.runs
  /\ timeouts' = s.timeouts
  /\ intervals' = s.intervals
  /\ life' = s.life
  /\ obs' = s.obs
  /\ gh' = s.gh
  /\ UNCHANGED <<syncVars, clientVars>>

RemoveAt(seq, i) == [j \in 1..(Len(seq) - 1) |-> IF j < i THEN seq[j] ELSE seq[j + 1]]

(***************************************************************************)
(* SyncEngine: runLoop and syncOnce, as far as the scheduler is concerned. *)
(***************************************************************************)
\* The settings, as far as isConfigured reads them: whether there is a sync
\* tag, a non-blank access token, a non-blank remote base path.
CompleteSettings == [tagsToSync |-> TRUE, dropboxAccessToken |-> TRUE,
                     remoteBasePath |-> TRUE]
SettingsChoices == {CompleteSettings,
                    [CompleteSettings EXCEPT !.tagsToSync = FALSE],
                    [CompleteSettings EXCEPT !.dropboxAccessToken = FALSE],
                    [CompleteSettings EXCEPT !.remoteBasePath = FALSE]}

IsConfigured(st) == st.tagsToSync /\ st.dropboxAccessToken /\ st.remoteBasePath

UpdateStatus(s, text) == [s EXCEPT !.status = text]

\* syncOnce returns before its first await: paused, or not configured.
SyncOnceIgnoresSettings(s) == s.isPaused
SyncOnceReturnsAtOnce(s) == s.isPaused \/ ~IsConfigured(s.settings)

ShouldForceUpload(s, trigger) ==
  s.forceUploadAllTagged \/ trigger = "resync-all-tagged"

\* runLoop: trigger = this.rerunRequested ? "local-event" : null
NextTriggerAlways(flag) == "local-event"
NextTriggerNever(flag) == NULL
NextTrigger(flag) == IF flag THEN "local-event" ELSE NULL

\* runLoop: the code after the do-while, the finally block, and startRun's
\* .finally callback.
RunLoopExitIgnoringPause(s) ==
  [UpdateStatus(s, "Up to date")
     EXCEPT !.isRunning = FALSE, !.runPromise = FALSE, !.obs.settled = "resolved"]
RunLoopExit(s) ==
  [UpdateStatus(s, IF s.isPaused THEN "Paused" ELSE "Up to date")
     EXCEPT !.isRunning = FALSE, !.runPromise = FALSE, !.obs.settled = "resolved"]

\* runLoop: the catch block, the finally block, and startRun's .finally.
\* The catch block returns, so the promise of runLoop resolves.
RunLoopCatchWithoutFinally(s, err) ==
  [UpdateStatus(s, IF err = "unreachable" THEN "Can't reach Dropbox" ELSE "Error")
     EXCEPT !.runPromise = FALSE, !.obs.settled = "resolved"]
RunLoopCatch(s, err) ==
  [UpdateStatus(s, IF err = "unreachable" THEN "Can't reach Dropbox" ELSE "Error")
     EXCEPT !.isRunning = FALSE, !.runPromise = FALSE, !.obs.settled = "resolved"]

\* syncOnce up to its first await: the pass is suspended in pullRemoteChanges,
\* which has read the cursor.
BeginPass(s, trigger) ==
  [s EXCEPT !.runs = Append(@, [stage |-> "pull", err |-> "none",
                                 force |-> ShouldForceUpload(s, trigger),
                                 full |-> ~s.cursorSet]),
            !.gh.trigs = 0]

\* One iteration of runLoop's do-while, from the reset of the flag to the
\* first await of the pass, or to the end of the loop when syncOnce returns
\* at once.  A pass that returned at once while the loop has a next trigger
\* is left as an activation about to iterate again.
RunLoopIterate(s, trigger) ==
  LET s1 == [s EXCEPT !.rerunRequested = FALSE] IN
  IF SyncOnceReturnsAtOnce(s1)
  THEN IF NextTrigger(s1.rerunRequested) = NULL
       THEN RunLoopExit(s1)
       ELSE [s1 EXCEPT !.runs = Append(@, [stage |-> "again", err |-> "none",
                                            force |-> FALSE, full |-> FALSE])]
  ELSE BeginPass(s1, trigger)

RunLoop(s, initialTrigger) ==
  IF s.isRunning
  THEN [s EXCEPT !.rerunRequested = TRUE, !.runPromise = FALSE]
  ELSE RunLoopIterate(
         UpdateStatus([s EXCEPT !.isRunning = TRUE, !.runPromise = TRUE], "Syncing ..."),
         initialTrigger)

\* A startRun that starts a loop whatever is in progress.
StartRunUnguarded(s, trigger) ==
  LET t == RunLoopIterate(
             UpdateStatus([s EXCEPT !.isRunning = TRUE, !.runPromise = TRUE], "Syncing ..."),
             trigger)
  IN [t EXCEPT !.obs = [NoObs EXCEPT !.kind = "startRun", !.busy = s.runPromise,
                                     !.started = Len(t.runs) > Len(s.runs)]]

StartRun(s, trigger) ==
  LET t == IF s.runPromise
           THEN [s EXCEPT !.rerunRequested = TRUE,
                          !.gh.trigs = Min(@ + 1, MaxTrig)]
           ELSE RunLoop(s, trigger)
  IN [t EXCEPT !.obs = [NoObs EXCEPT !.kind = "startRun", !.busy = s.runPromise,
                                     !.started = Len(t.runs) > Len(s.runs)]]

\* enqueueSync(trigger, true): an immediate trigger.
EnqueueImmediate(s, trigger) ==
  StartRun([s EXCEPT !.gh.immediate = TRUE], trigger)

\* enqueueSync(trigger, false) without the clearTimeout.
EnqueueDebouncedNoClear(s) ==
  [s EXCEPT !.timeouts = Append(@, DebounceMs), !.debounceTimer = TRUE]

\* enqueueSync(trigger, false): debounceTimer, when set, is the handle of the
\* timer created last.
EnqueueDebounced(s) ==
  LET cleared == IF s.debounceTimer
                 THEN [s EXCEPT !.timeouts = SubSeq(@, 1, Len(@) - 1)]
                 ELSE s
  IN [cleared EXCEPT !.timeouts = Append(@, DebounceMs), !.debounceTimer = TRUE]

RestartPolling(s) ==
  LET cleared == IF s.pollTimer
                 THEN [s EXCEPT !.intervals = @ - 1, !.pollTimer = FALSE]
                 ELSE s
  IN [cleared EXCEPT !.intervals = @ + 1, !.pollTimer = TRUE]


\* dispose(): both timers are cleared; the await of runPromise is Settle.
Dispose(s) ==
  LET a == IF s.debounceTimer
           THEN [s EXCEPT !.timeouts = SubSeq(@, 1, Len(@) - 1),
                          !.debounceTimer = FALSE, !.gh.cancelled = TRUE]
           ELSE s
      b == IF a.pollTimer
           THEN [a EXCEPT !.intervals = @ - 1, !.pollTimer = FALSE]
           ELSE a
  IN [b EXCEPT !.life = "disposing", !.obs = NoObs]

TogglePause(s) ==
  LET s1 == [s EXCEPT !.isPaused = ~@, !.obs = NoObs] IN
  IF s1.isPaused
  THEN UpdateStatus(s1, "Paused")
  ELSE EnqueueImmediate(UpdateStatus(s1, "Idle"), "manual")

ResyncAllTaggedFiles(s) ==
  EnqueueImmediate([s EXCEPT !.forceUploadAllTagged = TRUE, !.cursorSet = FALSE],
                   "resync-all-tagged")

\* handleVaultEvent for a markdown path that is not ignored.  The observer
\* counts a notification less than DebounceMs after the previous one into
\* the same burst.
HandleVaultEvent(s) ==
  LET same == s.gh.burst > 0 /\ s.gh.elapsed < DebounceMs
      g == IF same
           THEN [s.gh EXCEPT !.burst = Min(@ + 1, MaxBurst), !.elapsed = 0]
           ELSE [s.gh EXCEPT !.burst = 1, !.elapsed = 0, !.fires = 0,
                             !.cancelled = FALSE, !.immediate = FALSE]
  IN [EnqueueDebounced(s) EXCEPT !.gh = g, !.obs = NoObs]

\* The debounce timer's callback, for the live timer at position i.
DebounceCallback(s, i) ==
  LET s1 == [s EXCEPT !.timeouts = RemoveAt(@, i), !.debounceTimer = FALSE,
                      !.gh.fires = @ + 1]
      t == StartRun(s1, "local-event")
  IN [t EXCEPT !.obs.kind = "debounceFire", !.obs.elapsed = s.gh.elapsed]

\* The pass of activation i resumes from the await of its stage.
PassSettles(s, i, outcome) ==
  LET r == s.runs[i]
      rest == [s EXCEPT !.runs = RemoveAt(@, i), !.obs = NoObs]
      err == IF outcome # "ok" THEN outcome ELSE r.err
      nt == NextTrigger(rest.rerunRequested)
      ended(t, raised, again) ==
        [t EXCEPT !.obs = [NoObs EXCEPT !.kind = "passEnd", !.trigs = s.gh.trigs,
                                        !.settled = t.obs.settled,
                                        !.raised = raised, !.again = again,
                                        !.started = Len(t.runs) = Len(s.runs)]]
  IN
  CASE r.stage = "pull" ->
         \* pullRemoteChanges ends with setCursor(cursor); a failure skips push
         IF outcome = "ok"
         THEN [s EXCEPT !.runs[i].stage = "push", !.cursorSet = TRUE, !.obs = NoObs]
         ELSE [s EXCEPT !.runs[i].stage = "save", !.runs[i].err = outcome, !.obs = NoObs]
    [] r.stage = "push" ->
         IF outcome = "ok"
         THEN [s EXCEPT !.runs[i].stage = "save", !.forceUploadAllTagged = FALSE,
                        !.obs = NoObs]
         ELSE [s EXCEPT !.runs[i].stage = "save", !.runs[i].err = outcome, !.obs = NoObs]
    [] r.stage = "save" ->
         IF err # "none"
         THEN ended(RunLoopCatch(rest, err), TRUE, FALSE)
         ELSE IF nt = NULL
              THEN ended(RunLoopExit(rest), FALSE, FALSE)
              ELSE ended(RunLoopIterate(rest, nt), FALSE, TRUE)
    [] OTHER -> RunLoopIterate(rest, "local-event")

(***************************************************************************)
(* The scheduler's actions.                                                *)
(***************************************************************************)
Callable == life \in {"ready", "disposing"}
NoTimerDue == \A i \in 1..Len(timeouts) : timeouts[i] > 0

InitSched ==
  /\ isPaused = FALSE /\ isRunning = FALSE /\ rerunRequested = FALSE
  /\ runPromise = FALSE /\ debounceTimer = FALSE /\ pollTimer = FALSE
  /\ forceUploadAllTagged = FALSE
  /\ status = NULL
  /\ settings \in SettingsChoices
  /\ cursorSet = FALSE
  /\ runs = <<>> /\ timeouts = <<>> /\ intervals = 0
  /\ life = "new"
  /\ obs = NoObs /\ gh = InitGh
  /\ SyncVarsInit
  /\ ClientVarsInit

\* SyncEngine.initialize(): the store loads its cursor, polling starts, and
\* the first run is requested.
Initialize ==
  /\ life = "new"
  /\ \E loaded \in BOOLEAN :
       Commit(EnqueueImmediate(
         UpdateStatus(RestartPolling([S EXCEPT !.life = "ready", !.cursorSet = loaded]),
                      "Idle"),
         "settings-change"))

SyncNow == Callable /\ Commit(EnqueueImmediate(S, "manual"))

RebuildIndex == Callable /\ Commit(EnqueueImmediate(S, "rebuild-index"))

ResyncAll == Callable /\ Commit(ResyncAllTaggedFiles(S))

PauseResume == Callable /\ Commit(TogglePause(S))

\* The host changed the settings and called onSettingsChanged().
SettingsChanged ==
  /\ Callable
  /\ \E c \in SettingsChoices :
       Commit(EnqueueImmediate(RestartPolling([S EXCEPT !.settings = c]),
                               "settings-change"))

\* A live interval timer calls enqueueSync("poll", true).
PollTick == intervals > 0 /\ Commit(EnqueueImmediate(S, "poll"))

\* A vault event; a timer that is due runs first.
LocalChange == Callable /\ NoTimerDue /\ Commit(HandleVaultEvent(S))

DebounceFire ==
  \E i \in 1..Len(timeouts) :
    /\ timeouts[i] = 0
    /\ Commit(DebounceCallback(S, i))

\* Time passes; no timer is overrun.
Tick ==
  \E d \in TickSteps :
    /\ \A i \in 1..Len(timeouts) : timeouts[i] >= d
    /\ Commit([S EXCEPT !.timeouts = [i \in 1..Len(timeouts) |-> timeouts[i] - d],
                        !.gh.elapsed = IF @ + d > DebounceMs THEN Later ELSE @ + d,
                        !.obs = NoObs])

PullSettles ==
  \E i \in 1..Len(runs), outcome \in {"ok", "unreachable", "error"} :
    /\ runs[i].stage = "pull"
    /\ Commit(PassSettles(S, i, outcome))

PushSettles ==
  \E i \in 1..Len(runs), outcome \in {"ok", "unreachable", "error"} :
    /\ runs[i].stage = "push"
    /\ Commit(PassSettles(S, i, outcome))

\* stateStore.save() settles: syncOnce returns or raises, runLoop goes on.
SaveSettles ==
  \E i \in 1..Len(runs), outcome \in {"ok", "error"} :
    /\ runs[i].stage \in {"save", "again"}
    /\ runs[i].stage = "again" => outcome = "ok"
    /\ Commit(PassSettles(S, i, outcome))

Unload == life = "ready" /\ Commit(Dispose(S))

NextSched ==
  \/ Initialize
  \/ SyncNow
  \/ RebuildIndex
  \/ ResyncAll
  \/ PauseResume
  \/ SettingsChanged
  \/ PollTick
  \/ LocalChange
  \/ DebounceFire
  \/ Tick
  \/ PullSettles
  \/ PushSettles
  \/ SaveSettles
  \/ Unload

SpecSched == InitSched /\ [][NextSched]_vars


(***************************************************************************)
(* One engine's passes over the vault, the remote folder and the store.    *)
(***************************************************************************)
W == [local |-> local, copies |-> copies, remote |-> remote,
      remoteSeq |-> remoteSeq, clock |-> clock, store |-> store,
      saved |-> saved, pass |-> pass, env |-> env, ev |-> ev,
      forceUploadAllTagged |-> forceUploadAllTagged]

CommitW(w) ==
  /\ local' = w.local
  /\ copies' = w.copies
  /\ remote' = w.remote
  /\ remoteSeq' = w.remoteSeq
  /\ clock' = w.clock
  /\ store' = w.store
  /\ saved' = w.saved
  /\ pass' = w.pass
  /\ env' = w.env
  /\ ev' = w.ev
  /\ forceUploadAllTagged' = w.forceUploadAllTagged
  /\ UNCHANGED <<isPaused, isRunning, rerunRequested, runPromise, debounceTimer,
                 pollTimer, status, settings, cursorSet, runs, timeouts,
                 intervals, life, obs, gh, clientVars>>

\* ---- StateStore ----
SetCursor(w, cursor) == [w EXCEPT !.store.cursor = cursor]
SetFile(w, p, value) == [w EXCEPT !.store.files[p] = value]
DeleteFile(w, p) == [w EXCEPT !.store.files[p] = NoState]
CloneState(state) == [cursor |-> state.cursor, files |-> state.files]
Save(w) == [w EXCEPT !.saved = CloneState(w.store)]

\* ---- stripSyncTagsFromContent: the copy carries no configured sync tag ----
StripSyncTags(content) == [content EXCEPT !.tagged = FALSE]

\* ---- TagIndex.buildTaggedFileSet: documents carrying a sync tag; conflict
\* copies are not members whatever they contain ----
BuildTaggedFileSet(w) ==
  {p \in Docs : w.local[p].present /\ w.local[p].content.tagged}

\* ---- the tests of applyRemoteDelete, applyRemoteFile and pushLocalChanges,
\* each preceded by the degenerate test that ignores its arguments ----
RemoteChangedAlways(state, rev) == TRUE
RemoteChanged(state, rev) == ~state.tracked \/ state.dropboxRev # rev

LocalChangedNever(state, file) == FALSE
LocalChanged(state, file) == ~state.tracked \/ file.mtime # state.lastLocalMtime

SameContentNever(downloaded, localContent) == FALSE
SameContent(downloaded, localContent) == downloaded = localContent

RemoteAlwaysWins(remoteModifiedMs, localMtime) == TRUE
RemoteWins(remoteModifiedMs, localMtime) == remoteModifiedMs >= localMtime

\* ---- the effects of the calls a step makes, counted by the observer ----
Begin(w, op, entry, p) ==
  [w EXCEPT !.ev = [NoEv EXCEPT !.op = op, !.path = p, !.entry = entry,
                                !.preLocal = w.local[p], !.preRemote = w.remote[p],
                                !.preState = w.store.files[p],
                                !.preCopies = w.copies[p],
                                !.preEdited = w.env.edited[p]]]

Branch(w, name) == [w EXCEPT !.ev.branch = name]
Raise(w, call) == [w EXCEPT !.ev.failedAt = call]

\* client.download: the content is rf.content, the metadata rf.rev, rf.mod
Download(w) ==
  [w EXCEPT !.ev.nDownload = @ + 1, !.env.edited[w.ev.path] = FALSE,
            !.env.transferred[w.ev.path] = TRUE]

\* client.upload (mode overwrite): a new revision, stamped by the server
Upload(w, p, content, inScope) ==
  [w EXCEPT !.remote[p] = [present |-> TRUE, content |-> content,
                           rev |-> w.remoteSeq + 1, mod |-> w.clock,
                           by |-> "engine"],
            !.remoteSeq = @ + 1,
            !.ev.nUpload = @ + 1, !.ev.upContent = content,
            !.ev.inScope = inScope, !.env.edited[p] = FALSE,
            !.env.transferred[p] = TRUE]

\* client.delete: deleting an absent path changes nothing
DeleteRemotePath(w, p) ==
  IF w.remote[p].present
  THEN [w EXCEPT !.remote[p] = [NoRemote EXCEPT !.rev = w.remoteSeq + 1,
                                                !.by = "engine"],
                 !.remoteSeq = @ + 1, !.ev.nRemoteDelete = @ + 1]
  ELSE [w EXCEPT !.ev.nRemoteDelete = @ + 1]

\* vault.modify / vault.create: the write is stamped by the device's clock
CreateOrModifyLocalFile(w, p, content) ==
  [w EXCEPT !.local[p] = File(content, w.clock + 1), !.clock = @ + 1,
            !.ev.nLocalWrite = @ + 1]

DeleteLocalFile(w, p) ==
  [w EXCEPT !.local[p] = NoFile, !.ev.nLocalDelete = @ + 1]

\* createConflictCopy: the first free conflict name of p receives the
\* stripped content
CreateConflictCopy(w, p, content) ==
  [w EXCEPT !.copies[p] = Append(@, StripSyncTags(content)),
            !.ev.nCopy = @ + 1]

\* ---- applyRemoteDelete; f names the remote call that fails, if any ----
ApplyRemoteDelete(w0, entry, f) ==
  LET p == entry.path
      w == Begin(w0, "applyDelete", entry, p)
      localFile == w.local[p]
      existingState == w.store.files[p]
  IN
  IF ~localFile.present
  THEN DeleteFile(Branch(w, "gone"), p)
  ELSE IF ~LocalChanged(existingState, localFile)
  THEN DeleteFile(DeleteLocalFile(Branch(w, "deleteLocal"), p), p)
  ELSE LET w1 == CreateConflictCopy(Branch(w, "deleteConflict"), p, localFile.content) IN
       IF f = "upload"
       THEN Raise(w1, "upload")
       ELSE LET w2 == Upload(w1, p, localFile.content, localFile.content.tagged) IN
            SetFile(w2, p, FileState(w2.remote[p].rev, localFile.mtime, w2.remote[p].mod))

\* ---- applyRemoteFile ----
ApplyRemoteFile(w0, entry, f) ==
  LET p == entry.path
      w == Begin(w0, "applyFile", entry, p)
      existingState == w.store.files[p]
      localFile == w.local[p]
      rf == w.remote[p]
      \* download raises when the call fails or the path is gone by now
      downloadRaises == f = "download" \/ ~rf.present
      written(w1, branch) ==
        LET w2 == CreateOrModifyLocalFile(Branch(w1, branch), p, rf.content) IN
        SetFile(w2, p, FileState(rf.rev, w2.local[p].mtime, rf.mod))
  IN
  IF ~RemoteChanged(existingState, entry.rev)
  THEN Branch(w, "skip")
  ELSE IF ~localFile.present
  THEN IF downloadRaises THEN Raise(Branch(w, "create"), "download")
       ELSE written(Download(w), "create")
  ELSE IF ~LocalChanged(existingState, localFile)
  THEN IF downloadRaises THEN Raise(Branch(w, "overwrite"), "download")
       ELSE written(Download(w), "overwrite")
  ELSE IF downloadRaises THEN Raise(Branch(w, "compare"), "download")
  ELSE IF SameContent(rf.content, localFile.content)
  THEN SetFile(Branch(Download(w), "converged"), p,
               FileState(rf.rev, localFile.mtime, rf.mod))
  ELSE LET w1 == CreateConflictCopy(Download(w), p, localFile.content) IN
       IF RemoteWins(rf.mod, localFile.mtime)
       THEN written(w1, "conflictRemoteWins")
       ELSE IF f = "upload"
       THEN Raise(Branch(w1, "conflictLocalWins"), "upload")
       ELSE LET w2 == Upload(Branch(w1, "conflictLocalWins"), p, localFile.content,
                             localFile.content.tagged) IN
            SetFile(w2, p, FileState(w2.remote[p].rev, localFile.mtime, w2.remote[p].mod))

\* ---- client.listDelta: the entries changed since the cursor, oldest first,
\* deleted paths included; no cursor lists the whole folder ----
Entry(r, p) ==
  [path |-> p, tag |-> IF r[p].present THEN "file" ELSE "deleted", rev |-> r[p].rev]

RECURSIVE EntriesByRev(_, _)
EntriesByRev(r, ps) ==
  IF ps = {} THEN <<>>
  ELSE LET p == CHOOSE q \in ps : \A o \in ps : r[q].rev <= r[o].rev IN
       <<Entry(r, p)>> \o EntriesByRev(r, ps \ {p})

ListDelta(w) ==
  LET since == IF w.pass.cursor.set THEN w.pass.cursor.pos ELSE 0 IN
  [entries |-> EntriesByRev(w.remote, {p \in Docs : w.remote[p].rev > since}),
   cursor |-> [set |-> TRUE, pos |-> w.remoteSeq]]

\* ---- stateStore.allFiles(): the entries as they are when the loop starts ----
AllFiles(state) ==
  LET ps == SelectSeq(DocList, LAMBDA p : state.files[p].tracked) IN
  [i \in 1..Len(ps) |-> [path |-> ps[i], state |-> state.files[ps[i]]]]

SetToSeq(set) == SelectSeq(DocList, LAMBDA p : p \in set)

\* ---- a raise leaves the try block: only the finally clause is left ----
AbortWithoutSave(w) == [w EXCEPT !.pass = IdlePass]

Abort(w) ==
  [w EXCEPT !.pass = [@ EXCEPT !.pc = "save", !.raised = TRUE, !.queue = <<>>,
                               !.newCursor = NoCursor, !.tracked = <<>>,
                               !.scope = {}, !.scopeQ = <<>>]]

\* ---- pushLocalChanges returned: syncOnce lowers the flag and saves ----
EndPush(w) ==
  IF w.pass.pc = "push" /\ w.pass.tracked = <<>> /\ w.pass.scopeQ = <<>>
  THEN [w EXCEPT !.forceUploadAllTagged = FALSE, !.pass.pc = "save",
                 !.env.needForce = @ /\ ~w.pass.force]
  ELSE w

\* ---- the entries are applied: the cursor moves, the tagged set is built and
\* the push loops start on a snapshot of the tracked paths ----
EndPull(w) ==
  IF w.pass.pc = "pull" /\ w.pass.queue = <<>>
  THEN LET w1 == [SetCursor(w, w.pass.newCursor)
                    EXCEPT !.env.needFresh = @ /\ ~w.pass.fresh]
           taggedFiles == BuildTaggedFileSet(w1)
       IN EndPush([w1 EXCEPT !.pass.pc = "push",
                             !.pass.tracked = AllFiles(w1.store),
                             !.pass.scope = taggedFiles,
                             !.pass.scopeQ = SetToSeq(taggedFiles)])
  ELSE w

\* ---- one iteration of the loop over the tracked paths ----
\* the paths of Docs are notes as the user names them: none carries the
\* conflict marker (the names createConflictCopy makes are in copies)
IsConflictCopyDoc(p) == FALSE

\* what the iteration does with the tracked path
PushTrackedBranchAnyUntagged(present, isCopy, tagged, localChanged) ==
  IF ~present THEN "localGone"
  ELSE IF isCopy THEN "conflictCopy"
  ELSE IF ~tagged THEN "untagged"
  ELSE "keep"

PushTrackedBranch(present, isCopy, tagged, localChanged) ==
  IF ~present THEN "localGone"
  ELSE IF isCopy THEN "conflictCopy"
  ELSE IF ~tagged /\ localChanged THEN "untagged"
  ELSE "keep"

PushTracked(w0, f) ==
  LET t == Head(w0.pass.tracked)
      p == t.path
      w == [Begin(w0, "pushTracked", NoEntry, p) EXCEPT
              !.pass.tracked = Tail(@), !.ev.inScope = p \in w0.pass.scope]
      localFile == w.local[p]
      branch == PushTrackedBranch(localFile.present, IsConflictCopyDoc(p),
                                  p \in w.pass.scope,
                                  t.state.lastLocalMtime # localFile.mtime)
  IN
  IF branch = "keep" THEN Branch(w, "keep")
  ELSE IF f = "delete" THEN Raise(Branch(w, branch), "delete")
  ELSE DeleteFile(DeleteRemotePath(Branch(w, branch), p), p)

\* ---- one iteration of the loop over the tagged files ----
\* the record the size-limit branch writes
SkipRecordKeepingMtime(existingState, localFile) ==
  FileState(existingState.dropboxRev, existingState.lastLocalMtime,
            existingState.lastRemoteModified)

SkipRecord(existingState, localFile) ==
  FileState(existingState.dropboxRev, localFile.mtime,
            existingState.lastRemoteModified)

PushTagged(w0, f) ==
  LET p == Head(w0.pass.scopeQ)
      w == [Begin(w0, "pushTagged", NoEntry, p) EXCEPT
              !.pass.scopeQ = Tail(@), !.ev.forced = w0.pass.force]
      localFile == w.local[p]
      existingState == w.store.files[p]
  IN
  IF ~localFile.present THEN Branch(w, "gone")
  ELSE IF ~w.pass.force /\ existingState.tracked
          /\ existingState.lastLocalMtime = localFile.mtime
  THEN Branch(w, "unchanged")
  ELSE IF localFile.content.big
  THEN SetFile(Branch(w, "tooLarge"), p, SkipRecord(existingState, localFile))
  ELSE IF f = "upload" THEN Raise(Branch(w, "upload"), "upload")
  ELSE LET w1 == Upload(Branch(w, "upload"), p, localFile.content, p \in w.pass.scope) IN
       SetFile(w1, p, FileState(w1.remote[p].rev, localFile.mtime, w1.remote[p].mod))

\* ---- what follows a step of the pass: the raise ends it, the call that was
\* made to fail is counted ----
Follow(w, f) ==
  LET w0 == IF f = "none" THEN w ELSE [w EXCEPT !.env.ops = @ + 1]
      w1 == [w0 EXCEPT
               !.pass.called = @ \/ w.ev.nUpload + w.ev.nDownload + w.ev.nRemoteDelete > 0,
               !.pass.touched = @ \/ (w.ev.path \in Docs
                                        /\ w.store.files[w.ev.path] # w.ev.preState)]
  IN
  IF w.ev.failedAt # "none" THEN Abort(w1) ELSE EndPush(EndPull(w1))

MayFail(w, f) == f = "none" \/ (w.env.ops < MaxOps /\ w.ev.failedAt = f)

\* ---- the actions of a pass.  A step is syncOnce up to its first remote
\* call, the settling of listDelta, the application of one entry of the
\* delta, one iteration of a push loop, or the save of the finally clause;
\* the user and the other devices act between any two steps.  The scheduler
\* is left as constructed: a pass starts whenever none is in progress. ----
Init ==
  /\ InitSched
  /\ settings = CompleteSettings

PassStart ==
  /\ pass.pc = "idle"
  /\ ~SyncOnceReturnsAtOnce(S)
  /\ CommitW([W EXCEPT !.pass = [IdlePass EXCEPT !.pc = "list",
                                                 !.force = ShouldForceUpload(S, "manual"),
                                                 !.cursor = store.cursor,
                                                 !.fresh = ~store.cursor.set,
                                                 !.quiet = TRUE,
                                                 !.second = env.clean],
                       !.ev = [NoEv EXCEPT !.op = "start"]])

\* listDelta returned: its entries and its cursor are locals of
\* pullRemoteChanges until the loop is over
DeltaFetchedCursorFirst(w, delta) ==
  [SetCursor(w, delta.cursor) EXCEPT !.pass.pc = "pull",
                                     !.pass.queue = delta.entries,
                                     !.pass.newCursor = delta.cursor]
DeltaFetched(w, delta) ==
  [w EXCEPT !.pass.pc = "pull", !.pass.queue = delta.entries,
            !.pass.newCursor = delta.cursor]

ListDeltaSettles ==
  /\ pass.pc = "list"
  /\ \E f \in {"none", "list"} :
       LET delta == ListDelta(W)
           w0 == [W EXCEPT !.ev = [NoEv EXCEPT !.op = "list"]]
           w1 == IF f = "list" THEN Raise(w0, "list")
                 ELSE DeltaFetched(w0, delta)
       IN /\ MayFail(w1, f)
          /\ CommitW(Follow(w1, f))

ApplyRemoteEntry ==
  /\ pass.pc = "pull"
  /\ pass.queue # <<>>
  /\ \E f \in {"none", "download", "upload"} :
       LET entry == Head(pass.queue)
           w0 == [W EXCEPT !.pass.queue = Tail(@)]
           w1 == IF entry.tag = "deleted" THEN ApplyRemoteDelete(w0, entry, f)
                 ELSE ApplyRemoteFile(w0, entry, f)
       IN /\ MayFail(w1, f)
          /\ CommitW(Follow(w1, f))

PushTrackedStep ==
  /\ pass.pc = "push"
  /\ pass.tracked # <<>>
  /\ \E f \in {"none", "delete"} :
       LET w1 == PushTracked(W, f) IN
       /\ MayFail(w1, f)
       /\ CommitW(Follow(w1, f))

PushTaggedStep ==
  /\ pass.pc = "push"
  /\ pass.tracked = <<>>
  /\ pass.scopeQ # <<>>
  /\ \E f \in {"none", "upload"} :
       LET w1 == PushTagged(W, f) IN
       /\ MayFail(w1, f)
       /\ CommitW(Follow(w1, f))

StateSaved ==
  /\ pass.pc = "save"
  /\ CommitW([Save(W) EXCEPT
               !.pass = IdlePass,
               !.env.clean = ~pass.raised /\ pass.quiet,
               !.ev = [NoEv EXCEPT !.op = "save",
                                   !.done = [raised |-> pass.raised, second |-> pass.second,
                                             called |-> pass.called, touched |-> pass.touched,
                                             force |-> pass.force, fresh |-> pass.fresh]]])

\* ---- the user and the other devices ----
\* an event of the surroundings is counted and ends the quiet of the pass in
\* progress and of the pass before it
Disturb(w) ==
  [w EXCEPT !.env.ops = @ + 1, !.env.clean = FALSE,
            !.pass.quiet = FALSE, !.pass.second = FALSE, !.ev = NoEv]

UserEdit ==
  /\ env.ops < MaxOps
  /\ \E p \in Docs, c \in UserWrites :
       CommitW(Disturb([W EXCEPT !.local[p] = File(c, clock + 1), !.clock = @ + 1,
                                 !.env.edited[p] = TRUE]))

UserDelete ==
  /\ env.ops < MaxOps
  /\ \E p \in Docs :
       /\ local[p].present
       /\ CommitW(Disturb([W EXCEPT !.local[p] = NoFile, !.env.edited[p] = FALSE]))

RemoteEdit ==
  /\ env.ops < MaxOps
  /\ \E p \in Docs, c \in RemoteWrites, t \in RemoteTimes :
       CommitW(Disturb([W EXCEPT !.remote[p] = [present |-> TRUE, content |-> c,
                                                rev |-> remoteSeq + 1, mod |-> t,
                                                by |-> "other"],
                                 !.remoteSeq = @ + 1]))

RemoteDelete ==
  /\ env.ops < MaxOps
  /\ \E p \in Docs :
       /\ remote[p].present
       /\ CommitW(Disturb([W EXCEPT !.remote[p] = [NoRemote EXCEPT !.rev = remoteSeq + 1,
                                                                   !.by = "other"],
                                 !.remoteSeq = @ + 1]))

\* resyncAllTaggedFiles(): the flag is raised and the stored cursor dropped,
\* whatever the engine is doing; the run it asks for is the next PassStart
ResyncRequested ==
  /\ env.ops < MaxOps
  /\ CommitW(Disturb([W EXCEPT !.forceUploadAllTagged = TRUE,
                               !.store.cursor = NoCursor,
                               !.env.needFresh = TRUE, !.env.needForce = TRUE]))

Next ==
  \/ PassStart
  \/ ListDeltaSettles
  \/ ApplyRemoteEntry
  \/ PushTrackedStep
  \/ PushTaggedStep
  \/ StateSaved
  \/ UserEdit
  \/ UserDelete
  \/ RemoteEdit
  \/ RemoteDelete
  \/ ResyncRequested

Spec == Init /\ [][Next]_vars

(***************************************************************************)
(* DropboxClient.fetchWithRetry: one call, answer by answer.               *)
(***************************************************************************)
\* What a fetch can settle with: it throws (no connection), or a response
\* with a status and, for 409, the part of the body the client looks at.
Statuses == {200, 401, 404, 409, 429, 500, 503}

RetryAfterHeaders == {[kind |-> "seconds", value |-> 0],
                      [kind |-> "seconds", value |-> 2],
                      [kind |-> "text", value |-> 0]}

Responses ==
  {[NoResponse EXCEPT !.kind = "throw"]}
     \cup {[NoResponse EXCEPT !.kind = "http", !.status = st] : st \in Statuses}
     \cup {[NoResponse EXCEPT !.kind = "http", !.status = 409, !.body = b] :
              b \in {"not_found", "reset"}}
     \cup {[NoResponse EXCEPT !.kind = "http", !.status = st, !.retryAfter = h] :
              st \in {429, 503}, h \in RetryAfterHeaders}

\* Number(response.headers.get("Retry-After")): get yields null for an
\* absent header and Number(null) is 0; a text that is no number gives NaN
NumberOfHeader(h) ==
  IF h.kind = "text" THEN [finite |-> FALSE, n |-> 0]
  ELSE IF h.kind = "absent" THEN [finite |-> TRUE, n |-> 0]
  ELSE [finite |-> TRUE, n |-> h.value]

RECURSIVE Pow2(_)
Pow2(k) == IF k = 0 THEN 1 ELSE 2 * Pow2(k - 1)

Max(a, b) == IF a >= b THEN a ELSE b

\* Math.min(1000 * 2 ** (attempt - 1), 30000)
BackoffMs(attempt) == Min(1000 * Pow2(attempt - 1), 30000)

GetRetryDelayMs(r, attempt) ==
  LET retryAfter == NumberOfHeader(r.retryAfter) IN
  IF retryAfter.finite THEN Max(1000, retryAfter.n * 1000)
  ELSE BackoffMs(attempt)

ResponseOk(r) == r.status >= 200 /\ r.status <= 299

IsTransientOnly5xx(st) == st >= 500
IsTransientStatus(st) == st = 429 \/ st >= 500

\* the test of the 401 branch, apart from the status
MayRefreshAgain(c) == c.refreshable
MayRefresh(c) == c.refreshable /\ ~c.refreshedAfter401

FetchReturns(c, r) ==
  [c EXCEPT !.pc = "returned", !.result = [r EXCEPT !.kind = "response"]]

FetchThrows(c, kind, r) ==
  [c EXCEPT !.pc = "raised", !.result = [r EXCEPT !.kind = kind]]

\* the loop body of fetchWithRetry from the settling of fetch to the next
\* fetch, to the return or to the throw; refreshOk tells whether
\* refreshAccessToken, if called, returns a token
FetchSettled(c0, r, refreshOk) ==
  LET c == [c0 EXCEPT !.fetches = @ + 1, !.last = r, !.lastAttempt = c0.attempt,
                      !.n401 = IF r.status = 401 THEN @ + 1 ELSE @,
                      !.allThrew = @ /\ r.kind = "throw",
                      !.all5xx = @ /\ r.kind = "http" /\ r.status >= 500]
      isLast == c.attempt = MaxAttempts
  IN
  IF r.kind = "throw"
  THEN IF isLast
       THEN FetchThrows([c EXCEPT !.lastNetworkError = TRUE], "unreachable", r)
       ELSE [c EXCEPT !.lastNetworkError = TRUE, !.attempt = @ + 1,
                      !.delay = BackoffMs(c.attempt)]
  ELSE IF ResponseOk(r) THEN FetchReturns(c, r)
  ELSE IF r.status = 401 /\ MayRefresh(c)
  THEN IF refreshOk
       THEN [c EXCEPT !.accessToken = "fresh", !.refreshedAfter401 = TRUE,
                      !.refreshes = @ + 1]
       ELSE FetchThrows([c EXCEPT !.refreshes = @ + 1], "refreshFailed", r)
  ELSE IF r.status = 409 /\ c.allow = "notFound" /\ r.body = "not_found"
  THEN FetchReturns(c, r)
  ELSE IF r.status = 409 /\ c.allow = "cursorReset" /\ r.body = "reset"
  THEN FetchThrows(c, "cursorReset", r)
  ELSE IF ~IsTransientStatus(r.status) THEN FetchThrows(c, "permanent", r)
  ELSE IF isLast
  THEN IF r.status >= 500 THEN FetchThrows(c, "unreachable", r)
       ELSE FetchThrows(c, "permanent", r)
  ELSE [c EXCEPT !.attempt = @ + 1, !.delay = GetRetryDelayMs(r, c.attempt)]
\* (attempt never exceeds MaxAttempts, so the loop is never left by its
\* condition and the two throws after it are not reached)

CommitFetch(c) ==
  /\ fetchCall' = c
  /\ UNCHANGED <<schedVars, syncVars, listCall, storeCall, tagCall, scopeCall, oauthCall,
               echoCall, copyCall, pathCall>>

\* fetchWithRetry is called: the options of the call, whether the client has
\* a refresh function, and whether getAccessToken yields a non-blank token
FetchCalled ==
  /\ fetchCall.pc \in {"idle", "returned", "raised"}
  /\ \E refreshable \in BOOLEAN, allow \in {"none", "notFound", "cursorReset"},
        hasToken \in BOOLEAN :
       LET c == [IdleFetch EXCEPT !.refreshable = refreshable, !.allow = allow] IN
       CommitFetch(IF hasToken
                   THEN [c EXCEPT !.pc = "fetch", !.accessToken = "initial"]
                   ELSE FetchThrows(c, "tokenMissing", NoResponse))

FetchSettles ==
  /\ fetchCall.pc = "fetch"
  /\ \E r \in Responses, refreshOk \in BOOLEAN :
       CommitFetch(FetchSettled(fetchCall, r, refreshOk))

\* DropboxClient.delete after its fetchWithRetry({allowNotFound: true}) has
\* returned: false on 409, true otherwise
DeleteAlwaysTrue(c) == TRUE
DeleteReturnValue(c) == ~(c.result.status = 409)

\* what a delete() ends with once its fetchWithRetry has ended
DeleteOutcome(c) ==
  IF c.pc = "returned"
  THEN [kind |-> "returned", value |-> DeleteReturnValue(c)]
  ELSE [kind |-> c.result.kind, value |-> FALSE]

NextFetch ==
  \/ FetchCalled
  \/ FetchSettles

SpecFetch == Init /\ [][NextFetch]_vars

(***************************************************************************)
(* DropboxClient.requestOAuthToken, answered as a data call is: the two    *)
(* loops are given the same answers, attempt by attempt.                   *)
(***************************************************************************)
\* the loop body of requestOAuthToken; payloadOk tells whether the body of a
\* success response holds a token and a positive expires_in
OAuthSettled(c0, r, payloadOk) ==
  LET c == [c0 EXCEPT !.fetches = @ + 1]
      isLast == c.attempt = MaxAttempts
      raised(kind) == [c EXCEPT !.pc = "raised", !.result = [r EXCEPT !.kind = kind]]
  IN
  IF r.kind = "throw"
  THEN IF isLast
       THEN [raised("unreachable") EXCEPT !.lastNetworkError = TRUE]
       ELSE [c EXCEPT !.lastNetworkError = TRUE, !.attempt = @ + 1,
                      !.delay = BackoffMs(c.attempt)]
  ELSE IF ResponseOk(r)
  THEN IF payloadOk
       THEN [c EXCEPT !.pc = "returned", !.result = [r EXCEPT !.kind = "response"]]
       ELSE raised("invalidResponse")
  ELSE IF ~IsTransientStatus(r.status) \/ isLast THEN raised("permanent")
  ELSE [c EXCEPT !.attempt = @ + 1, !.delay = GetRetryDelayMs(r, c.attempt)]

CommitRetry(f, o) ==
  /\ fetchCall' = f
  /\ oauthCall' = o
  /\ UNCHANGED <<schedVars, syncVars, listCall, storeCall, tagCall, scopeCall,
               echoCall, copyCall, pathCall>>

\* a data call without options and a token request start together
RetryPairCalled ==
  /\ fetchCall.pc # "fetch"
  /\ oauthCall.pc # "fetch"
  /\ \E refreshable \in BOOLEAN :
       CommitRetry([IdleFetch EXCEPT !.pc = "fetch", !.refreshable = refreshable,
                                     !.accessToken = "initial"],
                   [IdleOAuth EXCEPT !.pc = "fetch"])

\* the same answer, other than 401, reaches each of the two that still waits
RetryPairSettles ==
  /\ oauthCall.pc # "idle"
  /\ fetchCall.pc = "fetch" \/ oauthCall.pc = "fetch"
  /\ \E r \in Responses, payloadOk \in BOOLEAN :
       /\ r.status # 401
       /\ CommitRetry(IF fetchCall.pc = "fetch" THEN FetchSettled(fetchCall, r, TRUE)
                      ELSE fetchCall,
                      IF oauthCall.pc = "fetch" THEN OAuthSettled(oauthCall, r, payloadOk)
                      ELSE oauthCall)

NextRetry ==
  \/ RetryPairCalled
  \/ RetryPairSettles

SpecRetry == Init /\ [][NextRetry]_vars

(***************************************************************************)
(* DropboxClient.listDelta and listDeltaInternal: one call, page by page.  *)
(***************************************************************************)
\* Bounds of the server's answers to one call: pages in all, entries a page.
MaxPages == 3
MaxPageSize == 2

\* the stored cursor handed to listDelta, when there is one
StoredCursor == 0

\* a page of n entries: the entries are numbered as the server hands them
\* out, the cursor is the number of the page
Page(c, n, hasMore) ==
  [entries |-> [i \in 1..n |-> c.nextId + i - 1], cursor |-> c.pages + 1,
   has_more |-> hasMore]

\* entries.push(...response.entries)
AccumulateLastPage(entries, page) == page.entries
Accumulate(entries, page) == entries \o page.entries

\* listDeltaInternal(remoteBasePath, cursor) up to its first await
ListDeltaInternal(c, withCursor) ==
  [c EXCEPT !.pc = "await", !.entries = <<>>,
            !.nextCursor = IF withCursor THEN StoredCursor ELSE 0,
            !.request = IF withCursor THEN "continue" ELSE "list",
            !.sent = IF withCursor THEN StoredCursor ELSE 0,
            !.served = <<>>]

\* a response arrives: it is accumulated; the loop goes on with the cursor
\* of the page while has_more is set
PageArrives(c0, page) ==
  LET c == [c0 EXCEPT !.entries = Accumulate(@, page), !.nextCursor = page.cursor,
                      !.served = Append(@, page), !.pages = @ + 1,
                      !.nextId = @ + Len(page.entries)]
  IN
  IF page.has_more
  THEN [c EXCEPT !.request = "continue", !.sent = c.nextCursor]
  ELSE [c EXCEPT !.pc = "returned", !.request = "none",
                 !.result = [kind |-> "listing", entries |-> c.entries,
                             cursor |-> c.nextCursor]]

ListRaises(c, kind) ==
  [c EXCEPT !.pc = "raised", !.request = "none",
            !.result = [NoListResult EXCEPT !.kind = kind]]

\* postListFolderContinue raised DropboxCursorResetError: listDelta catches
\* what its first listDeltaInternal raises, and only that
RecoversAlways(c) == TRUE
Recovers(c) == ~c.recovering

ResetArrives(c0) ==
  LET c == [c0 EXCEPT !.resets = @ + 1] IN
  IF Recovers(c)
  THEN ListDeltaInternal([c EXCEPT !.recovering = TRUE], FALSE)
  ELSE ListRaises(c, "cursorReset")

CommitList(c) ==
  /\ listCall' = c
  /\ UNCHANGED <<schedVars, syncVars, fetchCall, storeCall, tagCall, scopeCall, oauthCall,
               echoCall, copyCall, pathCall>>

ListDeltaCalled ==
  /\ listCall.pc \in {"idle", "returned", "raised"}
  /\ \E withCursor \in BOOLEAN :
       CommitList(ListDeltaInternal([IdleList EXCEPT !.hadCursor = withCursor],
                                    withCursor))

ListPageSettles ==
  /\ listCall.pc = "await"
  /\ listCall.pages < MaxPages
  /\ \E n \in 0..MaxPageSize, hasMore \in BOOLEAN :
       /\ hasMore => listCall.pages + 1 < MaxPages
       /\ CommitList(PageArrives(listCall, Page(listCall, n, hasMore)))

\* only list_folder/continue is called with allowCursorReset
ListResetSettles ==
  /\ listCall.pc = "await"
  /\ listCall.request = "continue"
  /\ CommitList(ResetArrives(listCall))

\* fetchWithRetry raised another error: it reaches the caller
ListErrorSettles ==
  /\ listCall.pc = "await"
  /\ \E kind \in {"unreachable", "permanent"} :
       CommitList(ListRaises(listCall, kind))

NextList ==
  \/ ListDeltaCalled
  \/ ListPageSettles
  \/ ListResetSettles
  \/ ListErrorSettles

SpecList == Init /\ [][NextList]_vars

(***************************************************************************)
(* StateStore: mutations and save(), with the objects they share.          *)
(***************************************************************************)
StoreCursors == {NoCursor, [set |-> TRUE, pos |-> 1], [set |-> TRUE, pos |-> 2]}
StoreFileStates == {FileState(1, 1, 1), FileState(2, 2, 2)}

\* the value of a state object: its mapping read through the reference
Deref(h, obj) == [cursor |-> obj.cursor, files |-> h.maps[obj.files]]

\* the mapping object that this.state does not refer to
OtherMap(h) == IF h.state.files = 1 THEN 2 ELSE 1

\* cloneState(this.state): a new state object and a new mapping object with
\* the same keys and values
CloneStateSharingFiles(h) ==
  [h EXCEPT !.arg = [cursor |-> h.state.cursor, files |-> h.state.files]]
CloneStateObject(h) ==
  [h EXCEPT !.maps[OtherMap(h)] = h.maps[h.state.files],
            !.arg = [cursor |-> h.state.cursor, files |-> OtherMap(h)]]

StoreSetCursor(h, cursor) == [h EXCEPT !.state.cursor = cursor, !.dirty = TRUE]
StoreSetFile(h, p, value) ==
  [h EXCEPT !.maps[h.state.files][p] = value, !.dirty = TRUE]
StoreDeleteFile(h, p) ==
  [h EXCEPT !.maps[h.state.files][p] = NoState, !.dirty = TRUE]

\* save() up to its await: saveStateFn is called with the clone
\* with saveSyncState up to its own await: storedData.syncState = state
StoreSave(h) ==
  LET c == CloneStateObject(h)
  IN [c EXCEPT !.pc = "saving", !.dirty = FALSE,
               !.atCall = Deref(h, h.state),
               !.host = [present |-> TRUE, cursor |-> c.arg.cursor,
                         files |-> c.arg.files],
               !.committed = Deref(h, h.state)]

\* ---- initialize(): this.state = normalizeLoadedState(await loadState()) ----
LoadedStates ==
  { [present |-> FALSE, cursor |-> NoCursor, files |-> DefaultSyncState.files],
    [present |-> TRUE, cursor |-> [set |-> TRUE, pos |-> 1],
     files |-> [p \in Docs |-> FileState(1, 1, 1)]],
    [present |-> TRUE, cursor |-> NoCursor, files |-> DefaultSyncState.files] }

NormalizeLoadedState(h, loadedState) ==
  IF ~loadedState.present THEN h
  ELSE [h EXCEPT !.maps[2] = loadedState.files,
                 !.host = [present |-> TRUE, cursor |-> loadedState.cursor,
                           files |-> 2],
                 !.state = [cursor |-> loadedState.cursor, files |-> 2],
                 !.committed = [cursor |-> loadedState.cursor,
                                files |-> loadedState.files]]

StoreInitialize(h, loadedState) ==
  IF h.loaded THEN h
  ELSE [NormalizeLoadedState(h, loadedState) EXCEPT !.loaded = TRUE]

\* ---- the plugin's saveSettings: saveData(this.storedData) ----
SavePluginData(h) ==
  [h EXCEPT !.hostWrite = [done |-> TRUE,
                           value |-> IF h.host.present THEN Deref(h, h.host)
                                     ELSE DefaultSyncState,
                           committed |-> h.committed]]

\* saveStateFn writes what its argument holds by then, and save() returns
StoreSaved(h) ==
  [h EXCEPT !.pc = "idle", !.written = Deref(h, h.arg), !.saves = Min(@ + 1, 2)]

CommitStore(h) ==
  /\ storeCall' = h
  /\ UNCHANGED <<schedVars, syncVars, fetchCall, listCall, tagCall, scopeCall, oauthCall,
               echoCall, copyCall, pathCall>>

\* the three mutators are synchronous: callable whether or not a save is
\* in progress
SetCursorCalled ==
  /\ storeCall.pc \in {"idle", "saving"}
  /\ \E cursor \in StoreCursors : CommitStore(StoreSetCursor(storeCall, cursor))

SetFileCalled ==
  /\ storeCall.pc \in {"idle", "saving"}
  /\ \E p \in Docs, value \in StoreFileStates :
       CommitStore(StoreSetFile(storeCall, p, value))

DeleteFileCalled ==
  /\ storeCall.pc \in {"idle", "saving"}
  /\ \E p \in Docs : CommitStore(StoreDeleteFile(storeCall, p))

\* the engine is initialized before it is used
InitializeCalled ==
  /\ storeCall = IdleStore
  /\ \E loadedState \in LoadedStates :
       CommitStore(StoreInitialize(storeCall, loadedState))

\* settings are saved, or a refreshed token is persisted during a pass
SaveSettingsCalled ==
  /\ storeCall.pc \in {"idle", "saving"}
  /\ CommitStore(SavePluginData(storeCall))

SaveCalled ==
  /\ storeCall.pc = "idle"
  /\ CommitStore(StoreSave(storeCall))

SaveReturns ==
  /\ storeCall.pc = "saving"
  /\ CommitStore(StoreSaved(storeCall))

NextStore ==
  \/ InitializeCalled
  \/ SaveSettingsCalled
  \/ SetCursorCalled
  \/ SetFileCalled
  \/ DeleteFileCalled
  \/ SaveCalled
  \/ SaveReturns

SpecStore == Init /\ [][NextStore]_vars

(***************************************************************************)
(* settings.normalizeTag and normalizeTags on strings of characters.       *)
(***************************************************************************)
MaxTagLen == 4

TagChars == {"#", " ", "F", "f", "O", "o"}

RECURSIVE StringsUpTo(_, _)
StringsUpTo(chars, n) ==
  IF n = 0 THEN {<<>>}
  ELSE LET shorter == StringsUpTo(chars, n - 1) IN
       shorter \cup {Append(t, ch) : t \in shorter, ch \in chars}

TagStrings == StringsUpTo(TagChars, MaxTagLen)

Tail1(t) == SubSeq(t, 2, Len(t))
Front(t) == SubSeq(t, 1, Len(t) - 1)

\* String.prototype.trim
RECURSIVE TrimStart(_)
TrimStart(t) == IF t # <<>> /\ t[1] = " " THEN TrimStart(Tail1(t)) ELSE t

RECURSIVE TrimEnd(_)
TrimEnd(t) == IF t # <<>> /\ t[Len(t)] = " " THEN TrimEnd(Front(t)) ELSE t

Trim(t) == TrimEnd(TrimStart(t))

\* replace(/^#+/, "")
RECURSIVE StripHashes(_)
StripHashes(t) == IF t # <<>> /\ t[1] = "#" THEN StripHashes(Tail1(t)) ELSE t

\* toLowerCase
LowerChar(ch) == IF ch = "F" THEN "f" ELSE IF ch = "O" THEN "o" ELSE ch
ToLowerCase(t) == [i \in 1..Len(t) |-> LowerChar(t[i])]

NormalizeTag(rawTag) == ToLowerCase(StripHashes(Trim(rawTag)))

\* normalizeTags: the non-empty normalized tags (as the Set it builds)
NormalizeTags(rawTags) == {NormalizeTag(t) : t \in rawTags} \ {<<>>}

CommitTag(c) ==
  /\ tagCall' = c
  /\ UNCHANGED <<schedVars, syncVars, fetchCall, listCall, storeCall, scopeCall, oauthCall,
               echoCall, copyCall, pathCall>>

NormalizeTagCalled ==
  /\ tagCall.pc = "idle"
  /\ \E rawTag \in TagStrings :
       CommitTag([pc |-> "returned", input |-> rawTag,
                  output |-> NormalizeTag(rawTag)])

NextTag == NormalizeTagCalled

SpecTag == Init /\ [][NextTag]_vars

(***************************************************************************)
(* TagIndex.buildTaggedFileSet on paths, globs and tags.  A path or a glob *)
(* is a sequence of tokens: single characters, the word "conflict" and the *)
(* extension ".md".                                                        *)
(***************************************************************************)
MaxVault == 2

Digits == {"0", "1", "2", "3", "4", "5", "6", "7", "8", "9"}

\* the markdown files a vault can hold
ScopePaths ==
  { <<"a", ".md">>,
    <<"d", "/", "a", ".md">>,
    <<"a", " ", "(", "conflict", " ", "v", " ", "1", ")", ".md">>,
    <<"d", "/", "a", " ", "(", "conflict", " ", "v", ")", "-", "1", ".md">>,
    <<"a", " ", "(", "conflict", " ", ")", ".md">>,
    <<"a", "(", "conflict", " ", "v", ")", ".md">> }

\* the tags Obsidian's cache can report for a file, as written
FileTagChoices == { {}, {<<"#", "F", "o", "o">>}, {<<"b">>, <<"#">>},
                    {<<"F", "O", "O">>, <<"b">>} }

\* the entries tagsToSync and ignoreGlobs can hold
ConfigTags == { {}, {<<"#">>}, {<<"f", "o", "o">>},
                {<<" ", "#", "F", "O", "O", " ">>, <<"b">>} }
ConfigGlobs == { {}, {<<>>, <<"d", "/", "*">>},
                 {<<" ", "/", "*", "*", "/", "a", ".md">>},
                 {<<"*", " ", "*">>, <<"*", "*", "-", "*">>} }

\* normalizeLocalPath: replace(/\\/g, "/").replace(/^\/+/, "")
BackslashToSlash(path) ==
  [i \in 1..Len(path) |-> IF path[i] = "\\" THEN "/" ELSE path[i]]

RECURSIVE StripLeadingSlashes(_)
StripLeadingSlashes(path) ==
  IF path # <<>> /\ path[1] = "/" THEN StripLeadingSlashes(Tail1(path)) ELSE path

NormalizeLocalPath(path) == StripLeadingSlashes(BackslashToSlash(path))

\* globToRegex: the trimmed, normalized glob with ** and * replaced, in that
\* order, by the patterns .* ("any") and [^/]* ("segment")
RECURSIVE ReplaceStars(_)
ReplaceStars(g) ==
  IF g = <<>> THEN <<>>
  ELSE IF Len(g) >= 2 /\ g[1] = "*" /\ g[2] = "*"
  THEN <<"any">> \o ReplaceStars(SubSeq(g, 3, Len(g)))
  ELSE IF g[1] = "*" THEN <<"segment">> \o ReplaceStars(Tail1(g))
  ELSE <<g[1]>> \o ReplaceStars(Tail1(g))

GlobToRegex(glob) == ReplaceStars(NormalizeLocalPath(NormalizeLocalPath(Trim(glob))))

\* RegExp(`^${escaped}$`).test(path)
RECURSIVE RegexTest(_, _)
RegexTest(re, path) ==
  IF re = <<>> THEN path = <<>>
  ELSE IF re[1] = "any"
  THEN \E k \in 0..Len(path) : RegexTest(Tail1(re), SubSeq(path, k + 1, Len(path)))
  ELSE IF re[1] = "segment"
  THEN \E k \in 0..Len(path) :
         /\ \A i \in 1..k : path[i] # "/"
         /\ RegexTest(Tail1(re), SubSeq(path, k + 1, Len(path)))
  ELSE path # <<>> /\ path[1] = re[1] /\ RegexTest(Tail1(re), Tail1(path))

\* isConflictCopyPath: /\s\(conflict [^)]+\)(-\d+)?\.md$/i
IsConflictCopyPath(path0) ==
  LET path == NormalizeLocalPath(path0)
      n == Len(path)
      Suffix(j) == SubSeq(path, j + 1, n)
      NumberedEnd(t) ==
        /\ Len(t) >= 3
        /\ t[1] = "-"
        /\ \A i \in 2..(Len(t) - 1) : t[i] \in Digits
        /\ t[Len(t)] = ".md"
  IN
  \E i \in 1..n, j \in 1..n :
    /\ i + 4 < j
    /\ path[i] = " " /\ path[i + 1] = "(" /\ path[i + 2] = "conflict"
    /\ path[i + 3] = " "
    /\ \A k \in (i + 4)..(j - 1) : path[k] # ")"
    /\ path[j] = ")"
    /\ Suffix(j) = <<".md">> \/ NumberedEnd(Suffix(j))

\* fileHasAnyTag, with extractCacheTags: the file's normalized non-empty tags
FileHasAnyTag(fileTags, normalizedTags) ==
  \E tag \in NormalizeTags(fileTags) : tag \in normalizedTags

\* the two tests of the loop that skip a file whatever its tags
SkippedForGlobOnly(localPath, ignoreMatchers) ==
  \E matcher \in ignoreMatchers : RegexTest(matcher, localPath)
Skipped(localPath, ignoreMatchers) ==
  \/ \E matcher \in ignoreMatchers : RegexTest(matcher, localPath)
  \/ IsConflictCopyPath(localPath)

\* buildTaggedFileSet(tagsToSync, ignoreGlobs) over the vault's markdown
\* files, a sequence of [path, tags]
RECURSIVE ScopeLoop(_, _, _)
ScopeLoop(files, normalizedTags, ignoreMatchers) ==
  IF files = <<>> THEN {}
  ELSE LET file == files[1]
           localPath == NormalizeLocalPath(file.path)
           rest == ScopeLoop(Tail1(files), normalizedTags, ignoreMatchers)
       IN
       IF Skipped(localPath, ignoreMatchers) THEN rest
       ELSE IF FileHasAnyTag(file.tags, normalizedTags) THEN {localPath} \cup rest
       ELSE rest

BuildScope(tagsToSync, ignoreGlobs, files) ==
  LET normalizedTags == NormalizeTags(tagsToSync) IN
  IF normalizedTags = {} THEN {}
  ELSE ScopeLoop(files, normalizedTags,
                 {GlobToRegex(g) : g \in ignoreGlobs \ {<<>>}})

\* the vaults: up to MaxVault files with distinct paths
Vaults ==
  UNION { { files \in [1..n -> [path : ScopePaths, tags : FileTagChoices]] :
              \A i, j \in 1..n : files[i].path = files[j].path => i = j }
          : n \in 0..MaxVault }

CommitScope(c) ==
  /\ scopeCall' = c
  /\ UNCHANGED <<schedVars, syncVars, fetchCall, listCall, storeCall, tagCall, oauthCall,
               echoCall, copyCall, pathCall>>

BuildTaggedFileSetCalled ==
  /\ scopeCall.pc = "idle"
  /\ \E tagsToSync \in ConfigTags, ignoreGlobs \in ConfigGlobs,
        files \in Vaults :
       CommitScope([pc |-> "returned", tagsToSync |-> tagsToSync,
                    ignoreGlobs |-> ignoreGlobs, files |-> files,
                    result |-> BuildScope(tagsToSync, ignoreGlobs, files)])

NextScope == BuildTaggedFileSetCalled

SpecScope == Init /\ [][NextScope]_vars

(***************************************************************************)
(* SyncEngine.ignoredPaths: the engine marks a path before it writes it,   *)
(* and handleVaultEvent drops the deliveries for a marked path.            *)
(***************************************************************************)
MaxEchoSteps == 4

IgnoreWindowMs == 5000

\* Date.now() between two deliveries: a millisecond or half a window later
EchoSteps == {1, 2500}

\* ---- pathUtils.isMarkdownPath: the extension, whatever its case ----
LowerExtension(x) == IF x = ".MD" THEN ".md" ELSE x

IsMarkdownPath(p) == LowerExtension(p[Len(p)]) = ".md"

\* ---- markPathIgnored ----
MarkPathIgnored(e, p) ==
  [e EXCEPT !.ignoredPaths[p] = e.now + IgnoreWindowMs]

\* ---- isPathIgnored: the expired marks are dropped, then the path's mark
\*      is read ----
PurgeExpired(e) ==
  [e EXCEPT !.ignoredPaths =
     [q \in EchoPaths |-> IF e.ignoredPaths[q] # NotMarked /\ e.ignoredPaths[q] < e.now
                          THEN NotMarked ELSE e.ignoredPaths[q]]]

IsPathIgnored(e, p) ==
  LET expiresAt == PurgeExpired(e).ignoredPaths[p]
  IN expiresAt # NotMarked /\ expiresAt >= e.now

\* ---- handleVaultEvent: which call of enqueueSync it makes, if any ----
RenameIgnoredNewOnly(e, newPath, oldPath) == IsPathIgnored(e, newPath)

RenameIgnored(e, newPath, oldPath) ==
  IsPathIgnored(e, newPath) \/ IsPathIgnored(e, oldPath)

HandleRename(e, newPath, oldPath) ==
  IF ~(IsMarkdownPath(newPath) \/ IsMarkdownPath(oldPath)) THEN "none"
  ELSE IF RenameIgnored(e, newPath, oldPath) THEN "none"
  ELSE "debounced"

HandleChange(e, path) ==
  IF ~IsMarkdownPath(path) THEN "none"
  ELSE IF IsPathIgnored(e, path) THEN "none"
  ELSE "debounced"

\* the observer's own account of the window: the engine wrote the path, and
\* no more than the window has passed since
WithinWindow(e, p) ==
  e.lastWrite[p] # NotMarked /\ e.now - e.lastWrite[p] <= IgnoreWindowMs

CommitEcho(e) ==
  /\ echoCall' = e
  /\ UNCHANGED <<schedVars, syncVars, fetchCall, listCall, storeCall, tagCall,
                 scopeCall, oauthCall, copyCall, pathCall>>

\* createOrModifyLocalFile, deleteLocalFile, createConflictCopy: the mark,
\* then the write is issued
EngineWrites ==
  /\ echoCall.steps <= MaxEchoSteps
  /\ \E p \in {q \in EchoPaths : IsMarkdownPath(q)},
        kind \in {"modify", "create", "delete", "copy"} :
       LET e == MarkPathIgnored(echoCall, p)
       IN CommitEcho([e EXCEPT !.lastWrite[p] = e.now,
                               !.obs = [NoDelivery EXCEPT
                                          !.kind = kind, !.path = p,
                                          !.marked = IsPathIgnored(e, p)]])

\* the vault delivers a create, modify or delete
ChangeDelivered ==
  /\ echoCall.steps <= MaxEchoSteps
  /\ \E p \in EchoPaths :
       CommitEcho([(IF IsMarkdownPath(p) THEN PurgeExpired(echoCall) ELSE echoCall)
                   EXCEPT !.obs = [NoDelivery EXCEPT
                                     !.kind = "change", !.path = p,
                                     !.enqueued = HandleChange(echoCall, p),
                                     !.window = WithinWindow(echoCall, p)]])

\* the vault delivers a rename
RenameDelivered ==
  /\ echoCall.steps <= MaxEchoSteps
  /\ \E newPath \in EchoPaths : \E oldPath \in EchoPaths \ {newPath} :
       CommitEcho([(IF IsMarkdownPath(newPath) \/ IsMarkdownPath(oldPath)
                    THEN PurgeExpired(echoCall) ELSE echoCall)
                   EXCEPT !.obs = [NoDelivery EXCEPT
                                     !.kind = "rename", !.path = newPath,
                                     !.oldPath = oldPath,
                                     !.enqueued = HandleRename(echoCall, newPath, oldPath),
                                     !.window = WithinWindow(echoCall, newPath)
                                                \/ WithinWindow(echoCall, oldPath)]])

TimePasses ==
  /\ echoCall.steps < MaxEchoSteps
  /\ \E d \in EchoSteps :
       CommitEcho([echoCall EXCEPT !.now = @ + d, !.steps = @ + 1,
                                   !.obs = NoDelivery])

NextEcho ==
  \/ EngineWrites
  \/ ChangeDelivered
  \/ RenameDelivered
  \/ TimePasses

SpecEcho == Init /\ [][NextEcho]_vars


(***************************************************************************)
(* SyncEngine.createConflictCopy and buildConflictPath, on paths as token  *)
(* sequences (see the scope computation above).                            *)
(***************************************************************************)
MaxCopyFiles == 3

\* the paths conflict copies are made of, the vault identifiers of the
\* settings, and the minute of the call as buildConflictPath formats it
CopySources == { <<"a", ".md">>, <<"/", "d", "/", "a", ".MD">>, <<")", ".md">> }

VaultIds == { <<>>, <<"v", ")">> }

Timestamp == <<"2", "-", "1", "_", "0">>

\* ---- buildConflictPath ----
LastSlash(path) ==
  IF \E i \in 1..Len(path) : path[i] = "/"
  THEN CHOOSE i \in 1..Len(path) :
         path[i] = "/" /\ \A j \in (i + 1)..Len(path) : path[j] # "/"
  ELSE 0

\* filename.replace(/\.md$/i, "")
StripMdExtension(name) ==
  IF name # <<>> /\ LowerExtension(name[Len(name)]) = ".md" THEN Front(name) ELSE name

\* (vaultId || "vault").replace(/[^a-zA-Z0-9_-]/g, "-")
SafeChars == Digits \cup {"a", "d", "l", "t", "u", "v", "_", "-"}

SafeVaultIdAsGiven(vaultId) ==
  IF vaultId = <<>> THEN <<"v", "a", "u", "l", "t">> ELSE vaultId

SafeVaultId(vaultId) ==
  LET id == IF vaultId = <<>> THEN <<"v", "a", "u", "l", "t">> ELSE vaultId
  IN [i \in 1..Len(id) |-> IF id[i] \in SafeChars THEN id[i] ELSE "-"]

BuildConflictPath(localPath, vaultId) ==
  LET normalizedPath == NormalizeLocalPath(localPath)
      slashIndex == LastSlash(normalizedPath)
      directory == SubSeq(normalizedPath, 1, slashIndex - 1)
      filename == SubSeq(normalizedPath, slashIndex + 1, Len(normalizedPath))
      baseName == StripMdExtension(filename)
      conflictName == baseName \o <<" ", "(", "conflict", " ">> \o SafeVaultId(vaultId)
                      \o <<" ">> \o Timestamp \o <<")", ".md">>
  IN IF directory # <<>> THEN directory \o <<"/">> \o conflictName ELSE conflictName

\* ---- `-${suffix}.md`: the decimal digits of the suffix ----
DigitOf == <<"0", "1", "2", "3", "4", "5", "6", "7", "8", "9">>

RECURSIVE Decimal(_)
Decimal(k) ==
  IF k < 10 THEN <<DigitOf[k + 1]>> ELSE Decimal(k \div 10) \o <<DigitOf[(k % 10) + 1]>>

\* conflictPath.replace(/\.md$/i, `-${suffix}.md`)
Suffixed(conflictPath, suffix) ==
  IF conflictPath # <<>> /\ LowerExtension(conflictPath[Len(conflictPath)]) = ".md"
  THEN Front(conflictPath) \o <<"-">> \o Decimal(suffix) \o <<".md">>
  ELSE conflictPath

\* ---- createConflictCopy: the while loop, entered with finalPath and suffix ----
RECURSIVE FindFreePath(_, _, _, _)
FindFreePath(vault, conflictPath, finalPath, suffix) ==
  IF finalPath \in vault
  THEN FindFreePath(vault, conflictPath, Suffixed(conflictPath, suffix), suffix + 1)
  ELSE finalPath

CreateConflictCopyAt(c, localPath, vaultId) ==
  LET conflictPath == BuildConflictPath(localPath, vaultId)
      finalPath == FindFreePath(c.vault, conflictPath, conflictPath, 1)
  IN [pc |-> "returned", vault |-> c.vault \cup {finalPath}, before |-> c.vault,
      localPath |-> localPath, vaultId |-> vaultId,
      conflictPath |-> conflictPath, finalPath |-> finalPath]

CommitCopy(c) ==
  /\ copyCall' = c
  /\ UNCHANGED <<schedVars, syncVars, fetchCall, listCall, storeCall, tagCall,
                 scopeCall, oauthCall, echoCall, pathCall>>

CreateConflictCopyCalled ==
  /\ Cardinality(copyCall.vault) < MaxCopyFiles
  /\ \E localPath \in CopySources, vaultId \in VaultIds :
       CommitCopy(CreateConflictCopyAt(copyCall, localPath, vaultId))

NextCopy ==
  \/ CreateConflictCopyCalled

SpecCopy == Init /\ [][NextCopy]_vars

(***************************************************************************)
(* pathUtils: normalizeRemoteBasePath, toRemotePath and toLocalPath, on    *)
(* paths as token sequences: "/", "\", " " and names without any of them.  *)
(***************************************************************************)
MaxPathLen == 5

PathChars == {"/", "foo", "bar", " "}

\* settings.remoteBasePath as the user may have typed it
RemoteBases ==
  { <<>>, <<"/">>, <<"/", "/">>, <<"/", "foo">>, <<"foo", "/">>,
    <<"/", "foo", "/", "bar">>, <<"/", "foo", " ", "/">>,
    <<" ", "\\", "foo", "/", "/", "bar", " ">> }

PathsUpTo(n) == UNION {[1..k -> PathChars] : k \in 0..n}

\* replace(/\/{2,}/g, "/")
RECURSIVE CollapseSlashes(_)
CollapseSlashes(path) ==
  IF Len(path) < 2 THEN path
  ELSE IF path[1] = "/" /\ path[2] = "/" THEN CollapseSlashes(Tail1(path))
  ELSE <<path[1]>> \o CollapseSlashes(Tail1(path))

\* replace(/\/+$/, "")
RECURSIVE StripTrailingSlashes(_)
StripTrailingSlashes(path) ==
  IF path # <<>> /\ path[Len(path)] = "/" THEN StripTrailingSlashes(Front(path))
  ELSE path

StartsWith(path, prefix) ==
  Len(prefix) <= Len(path) /\ SubSeq(path, 1, Len(prefix)) = prefix

NormalizeRemoteBasePath(path) ==
  LET trimmed == BackslashToSlash(Trim(path))
      withLeadingSlash == IF StartsWith(trimmed, <<"/">>) THEN trimmed
                          ELSE <<"/">> \o trimmed
  IN IF trimmed = <<>> \/ trimmed = <<"/">> THEN <<"/">>
     ELSE StripTrailingSlashes(CollapseSlashes(withLeadingSlash))

ToRemotePath(remoteBasePath, localPath) ==
  LET base == NormalizeRemoteBasePath(remoteBasePath)
      localNorm == NormalizeLocalPath(localPath)
  IN IF base = <<"/">> THEN <<"/">> \o localNorm
     ELSE CollapseSlashes(base \o <<"/">> \o localNorm)

ToLocalPathByPrefix(remoteBasePath, remotePath) ==
  LET base == NormalizeRemoteBasePath(remoteBasePath)
      normalizedRemote == NormalizeRemoteBasePath(remotePath)
  IN IF base = <<"/">>
     THEN [null |-> FALSE, path |-> StripLeadingSlashes(normalizedRemote)]
     ELSE IF normalizedRemote = base THEN Null
     ELSE IF ~StartsWith(normalizedRemote, base) THEN Null
     ELSE [null |-> FALSE,
           path |-> SubSeq(normalizedRemote, Len(base) + 1, Len(normalizedRemote))]

ToLocalPath(remoteBasePath, remotePath) ==
  LET base == NormalizeRemoteBasePath(remoteBasePath)
      normalizedRemote == NormalizeRemoteBasePath(remotePath)
  IN IF base = <<"/">>
     THEN [null |-> FALSE, path |-> StripLeadingSlashes(normalizedRemote)]
     ELSE IF normalizedRemote = base THEN Null
     ELSE IF ~StartsWith(normalizedRemote, base \o <<"/">>) THEN Null
     ELSE [null |-> FALSE,
           path |-> SubSeq(normalizedRemote, Len(base) + 2, Len(normalizedRemote))]

\* the local paths of the vault: normalized, every segment non-empty
LocalPaths ==
  { path \in PathsUpTo(MaxPathLen - 1) :
      /\ path # <<>>
      /\ path[1] # "/" /\ path[Len(path)] # "/"
      /\ \A i \in 1..(Len(path) - 1) : ~(path[i] = "/" /\ path[i + 1] = "/") }

\* the remote paths of a listing: absolute
RemotePaths == { <<"/">> \o path : path \in PathsUpTo(MaxPathLen - 1) }

CommitPath(c) ==
  /\ pathCall' = c
  /\ UNCHANGED <<schedVars, syncVars, fetchCall, listCall, storeCall, tagCall,
                 scopeCall, oauthCall, echoCall, copyCall>>

\* a local path is translated for an upload, and the result translated back
ToRemotePathCalled ==
  /\ pathCall.pc = "idle"
  /\ \E base \in RemoteBases, localPath \in LocalPaths :
       LET remotePath == ToRemotePath(base, localPath)
       IN CommitPath([pc |-> "roundTrip", base |-> base, localPath |-> localPath,
                      remotePath |-> remotePath, toRemote |-> remotePath,
                      toLocal |-> ToLocalPath(base, remotePath)])

\* the path of a listed entry is translated
ToLocalPathCalled ==
  /\ pathCall.pc = "idle"
  /\ \E base \in RemoteBases, remotePath \in RemotePaths :
       CommitPath([pc |-> "toLocal", base |-> base, localPath |-> <<>>,
                   remotePath |-> remotePath, toRemote |-> <<>>,
                   toLocal |-> ToLocalPath(base, remotePath)])

NextPath ==
  \/ ToRemotePathCalled
  \/ ToLocalPathCalled

SpecPath == Init /\ [][NextPath]_vars

(***************************************************************************)
(* Claims about the scheduler, checked under SpecSched.                    *)
(***************************************************************************)

\* C1: at most one pass is in flight at any time, and a startRun that finds
\* a run in progress (runPromise non-null) starts nothing: it leaves the
\* activations alone and sets rerunRequested.
C1_OnePassAtATime ==
  /\ Len(runs) <= 1
  /\ (runs # <<>> => runPromise /\ isRunning)
  /\ (obs.kind \in {"startRun", "debounceFire"} /\ obs.busy
        => ~obs.started /\ rerunRequested /\ runPromise)

C1_Witness ==
  /\ obs.kind = "startRun" /\ obs.busy
  /\ Len(runs) = 1 /\ runs[1].stage = "push" /\ rerunRequested

C3_BoundedReruns ==
  obs.kind = "passEnd"
    => /\ Len(runs) <= 1
       /\ (obs.again => obs.trigs >= 1 /\ ~rerunRequested)
       /\ (obs.trigs = 0 => ~obs.again /\ runs = <<>> /\ ~runPromise /\ ~isRunning)

C3_Witness ==
  obs.kind = "passEnd" /\ obs.trigs = MaxTrig /\ obs.started /\ Len(runs) = 1

\* C4 as stated: the firing of the debounce timer of a burst, with no
\* immediate trigger since the burst began, starts a run.
C4_Original ==
  obs.kind = "debounceFire" /\ ~gh.immediate => ~obs.busy

\* C4 amended: at most one debounce timer is live, and it is due DebounceMs
\* after the last notification; a burst makes its callback call startRun
\* once, exactly DebounceMs after the burst's last notification, unless
\* dispose() cancelled the timer.
C4_Debounce ==
  /\ Len(timeouts) <= 1
  /\ (timeouts # <<>>
        => /\ debounceTimer /\ gh.burst >= 1 /\ gh.fires = 0
           /\ timeouts[1] = DebounceMs - gh.elapsed)
  /\ gh.fires <= 1
  /\ (obs.kind = "debounceFire" => obs.elapsed = DebounceMs /\ gh.fires = 1)
  /\ (gh.burst >= 1 /\ timeouts = <<>> /\ ~gh.cancelled => gh.fires = 1)

C4_Witness ==
  obs.kind = "debounceFire" /\ gh.burst = MaxBurst /\ gh.fires = 1

\* C25: disposal stops all work: once dispose() has returned, no debounce
\* timer and no poll timer is pending and no pass executes, whatever triggers
\* arrived while dispose() was waiting for the run.
C25_DisposalStopsAllWork ==
  life = "disposed" =>
    /\ ~debounceTimer /\ timeouts = <<>>
    /\ ~pollTimer /\ intervals = 0
    /\ ~isRunning /\ runs = <<>>

\* C28: the state store is touched only from within a run: no operation of
\* the public interface (syncNow, rebuildIndex, resyncAllTaggedFiles,
\* togglePause, onSettingsChanged, handleVaultEvent) changes the cursor,
\* outside a pass or while a pull is in progress; the cursor changes only
\* when the pull of a pass ends, and then it is set (initialize, which loads
\* the store, apart).
C28_StoreOnlyInRun ==
  [][ (life # "new" /\ cursorSet' # cursorSet) =>
        /\ cursorSet'
        /\ \E i \in 1..Len(runs) : runs[i].stage = "pull" ]_vars

RaisedStatuses == {"Can't reach Dropbox", "Error"}

\* C29 as stated: a pause requested during a run leaves the pass in
\* progress, no pass begins while the engine is paused, and whenever the
\* engine is paused and no run is in progress the status is Paused.
C29_Original ==
  /\ obs.started => ~isPaused
  /\ (isPaused /\ ~runPromise /\ life # "new") => status = "Paused"

\* C29, amended: the step that pauses leaves the run and its pass as they
\* are and reports Paused; no pass begins while the engine is paused; and
\* whenever the engine is paused and no run is in progress the status is
\* Paused, unless a pass in progress when the pause was requested has raised
\* since: then it is the status of that failed run, until the next trigger.
C29_PausedStatus ==
  [][ /\ (~isPaused /\ isPaused') =>
           (runs' = runs /\ runPromise' = runPromise /\ isRunning' = isRunning
              /\ status' = "Paused")
      /\ obs'.started => ~isPaused'
      /\ (isPaused' /\ ~runPromise' /\ life' # "new") =>
           \/ status' = "Paused"
           \/ obs'.kind = "passEnd" /\ obs'.raised /\ status' \in RaisedStatuses
           \/ isPaused /\ ~runPromise /\ status' = status ]_vars

\* a run whose pass was in progress when the pause came has ended, in Paused
C29_Witness ==
  /\ obs.kind = "passEnd"
  /\ ~obs.raised
  /\ isPaused
  /\ ~runPromise
  /\ status = "Paused"

\* C30: a failed run is terminal for that run only: when a pass raises, the
\* run ends with the status Unreachable or Error, the running flag and the
\* run promise are cleared, the promise resolves, no pass of the run goes
\* on; and the next trigger that calls startRun with the engine not paused
\* and configured begins a pass.
C30_FailedRunEnds ==
  [][ /\ (obs'.kind = "passEnd" /\ obs'.raised) =>
           /\ status' \in RaisedStatuses
           /\ ~isRunning' /\ ~runPromise'
           /\ obs'.settled = "resolved"
           /\ ~obs'.started /\ ~obs'.again
      /\ (status \in RaisedStatuses /\ ~runPromise /\ obs'.kind = "startRun"
            /\ ~isPaused' /\ IsConfigured(settings')) =>
           (obs'.started /\ runPromise' /\ isRunning') ]_vars

\* a run has failed while a re-run was requested
C30_Witness ==
  /\ obs.kind = "passEnd"
  /\ obs.raised
  /\ obs.trigs > 0
  /\ status = "Can't reach Dropbox"
  /\ ~runPromise

(***************************************************************************)
(* Claims about the passes, checked under Spec.  ev describes the step     *)
(* that led to the current state, so each claim is a state predicate over  *)
(* ev and the state the step produced.                                     *)
(***************************************************************************)
\* applyRemoteFile was called for a path that is present locally, differs
\* from the record both locally and remotely, and whose remote content is
\* not the local content
EditEditConflict ==
  /\ ev.op = "applyFile"
  /\ ev.preLocal.present
  /\ ev.preRemote.present
  /\ LocalChanged(ev.preState, ev.preLocal)
  /\ RemoteChanged(ev.preState, ev.entry.rev)
  /\ ev.preRemote.content # ev.preLocal.content

Completed == ev.failedAt = "none"

\* C5: in an edit/edit conflict on a tracked path (local mtime differs from
\* the recorded one, remote revision differs from the recorded one, remote
\* content differs from the local content), once applyRemoteFile has
\* returned, exactly one conflict copy has been added, and the original path
\* holds, locally and remotely, the remote content when the remote
\* modification time is the later one and the local content when the local
\* modification time is the later one.
C5_EditEditConflict ==
  (EditEditConflict /\ ev.preState.tracked /\ Completed) =>
     /\ ev.nCopy = 1
     /\ Len(copies[ev.path]) = Len(ev.preCopies) + 1
     /\ (ev.preRemote.mod > ev.preLocal.mtime =>
           /\ local[ev.path].content = ev.preRemote.content
           /\ remote[ev.path].content = ev.preRemote.content)
     /\ (ev.preLocal.mtime > ev.preRemote.mod =>
           /\ local[ev.path].content = ev.preLocal.content
           /\ remote[ev.path].content = ev.preLocal.content)

\* a conflict on a tracked path that the local side won: its content went up
C5_Witness ==
  /\ EditEditConflict /\ ev.preState.tracked /\ Completed
  /\ ev.preLocal.mtime > ev.preRemote.mod
  /\ ev.nUpload = 1
  /\ remote[ev.path].content = ev.preLocal.content

\* the content is at the original path of the vault or, stripped of its sync
\* tags, in one of the path's conflict copies
Survives(p, content) ==
  \/ local[p].present /\ local[p].content = content
  \/ \E i \in 1..Len(copies[p]) : copies[p][i] = StripSyncTags(content)

\* C6: after applyRemoteFile has resolved an edit/edit conflict, both the
\* local content and the remote content from before the conflict are still
\* present, one at the original path and the other in the conflict copy,
\* whichever side won.
C6_NoContentDropped ==
  (EditEditConflict /\ Completed) =>
     /\ Survives(ev.path, ev.preLocal.content)
     /\ Survives(ev.path, ev.preRemote.content)

\* applyRemoteDelete was called for a path whose local file changed since
\* the record (or has no record)
DeleteEditConflict ==
  /\ ev.op = "applyDelete"
  /\ ev.preLocal.present
  /\ LocalChanged(ev.preState, ev.preLocal)

\* C7: when the remote reports a path deleted and the local file was edited
\* since the recorded state, the local file stays at its path unchanged and a
\* conflict copy of the stripped local content is written, and once
\* applyRemoteDelete has returned the remote path holds the local content
\* again; and no step deletes a local file unless it is applyRemoteDelete on
\* a tracked path whose local mtime equals the recorded one.
C7_LocalEditSurvivesRemoteDelete ==
  /\ DeleteEditConflict =>
       /\ local[ev.path] = ev.preLocal
       /\ ev.nLocalDelete = 0
       /\ copies[ev.path] = Append(ev.preCopies, StripSyncTags(ev.preLocal.content))
       /\ Completed =>
            /\ ev.nUpload = 1
            /\ remote[ev.path].present
            /\ remote[ev.path].content = ev.preLocal.content
  /\ ev.nLocalDelete > 0 =>
       /\ ev.op = "applyDelete"
       /\ ev.preState.tracked
       /\ ev.preLocal.mtime = ev.preState.lastLocalMtime

\* a tracked file edited by the user after the record, deleted remotely by
\* another device, and the delete applied
C7_Witness ==
  /\ DeleteEditConflict /\ Completed
  /\ ev.preState.tracked
  /\ ev.preRemote.by = "other"
  /\ local[ev.path] = ev.preLocal
  /\ remote[ev.path].content = ev.preLocal.content

\* C8: every upload the engine issues, those of conflict resolution during
\* pull included, is for a local path that carries a configured sync tag.
C8_UploadsInScope ==
  ev.nUpload > 0 => ev.inScope

\* applyRemoteFile was called for a tracked path that changed locally and
\* remotely, to the same content
SameContentChange ==
  /\ ev.op = "applyFile"
  /\ ev.preState.tracked
  /\ ev.preLocal.present
  /\ ev.preRemote.present
  /\ LocalChanged(ev.preState, ev.preLocal)
  /\ RemoteChanged(ev.preState, ev.entry.rev)
  /\ ev.preRemote.content = ev.preLocal.content

\* C9: when a tracked path changed both locally and remotely but the
\* downloaded content equals the local content, no conflict copy is created,
\* nothing is written locally, nothing is uploaded, and the record becomes
\* the downloaded revision with the current local modification time.
C9_Convergence ==
  (SameContentChange /\ Completed) =>
     /\ ev.nCopy = 0 /\ ev.nLocalWrite = 0 /\ ev.nUpload = 0
     /\ copies[ev.path] = ev.preCopies
     /\ local[ev.path] = ev.preLocal
     /\ remote[ev.path] = ev.preRemote
     /\ store.files[ev.path] =
          FileState(ev.preRemote.rev, ev.preLocal.mtime, ev.preRemote.mod)

\* the same content written by the user and by another device
C9_Witness ==
  /\ SameContentChange /\ Completed
  /\ ev.preRemote.by = "other"
  /\ ev.nDownload = 1
  /\ store.files[ev.path].dropboxRev = ev.preRemote.rev
  /\ store.files[ev.path].dropboxRev # ev.preState.dropboxRev

\* C10: when the delta names a path with the revision that is recorded for
\* it (as it does after the engine's own upload), applyRemoteFile does
\* nothing for the path: no download, no local write, no conflict copy, no
\* upload, and the record is unchanged.
C10_RoundTrip ==
  (ev.op = "applyFile" /\ ev.preState.tracked
     /\ ev.preState.dropboxRev = ev.entry.rev) =>
     /\ ev.nDownload = 0 /\ ev.nLocalWrite = 0 /\ ev.nCopy = 0
     /\ ev.nUpload = 0 /\ ev.nLocalDelete = 0
     /\ local[ev.path] = ev.preLocal
     /\ copies[ev.path] = ev.preCopies
     /\ remote[ev.path] = ev.preRemote
     /\ store.files[ev.path] = ev.preState

\* the pull after the engine's own upload meets the uploaded revision
C10_Witness ==
  /\ ev.op = "applyFile"
  /\ ev.preState.tracked
  /\ ev.preRemote.by = "engine"
  /\ ev.preRemote.present
  /\ ev.preRemote.rev = ev.entry.rev
  /\ ev.preState.dropboxRev = ev.entry.rev
  /\ store.files[ev.path] = ev.preState

\* C11: a full pass that follows a pass that ended without raising, with no
\* local or remote change since that pass started, issues no upload, download
\* or delete call and leaves the per-file state as it was.
C11_Idempotent ==
  (ev.op = "save" /\ ev.done.second /\ ~ev.done.raised) =>
     (~ev.done.called /\ ~ev.done.touched)

\* C12: a pass that has reached pull ends in no other way than by the save
\* of the finally clause, whether pull and push returned or one of them
\* raised, and what is saved then is the store as it is in memory, with
\* every change made before the raise; nothing else saves the store.
C12_SavedAtEnd ==
  [][ /\ (pass.pc # "idle" /\ pass'.pc = "idle") =>
           (pass.pc = "save" /\ store' = store /\ saved' = store)
      /\ (ev'.failedAt # "none" /\ ev'.op # "none") => pass'.pc = "save"
      /\ saved' # saved => pass.pc = "save" ]_vars

\* a pass changed the per-file state, then raised, and the state was saved
C12_Witness ==
  /\ ev.op = "save"
  /\ ev.done.raised
  /\ ev.done.touched
  /\ saved = store
  /\ saved.files # DefaultSyncState.files

\* C13: a resync request is not dropped, whether it arrives while the engine
\* is idle or during a run: until a pass that lists the whole folder has
\* applied its entries, the stored cursor stays absent or such a pass is
\* pulling; and until a forced pass has finished its push, the force flag
\* stays raised or a forced pass is in progress.
C13_ResyncHonoured ==
  /\ env.needFresh =>
       (~store.cursor.set \/ (pass.pc \in {"list", "pull"} /\ pass.fresh))
  /\ env.needForce =>
       (forceUploadAllTagged \/ (pass.pc # "idle" /\ pass.force))

\* C14: when the settings lack a sync tag, an access token or a base path,
\* syncOnce returns before anything is awaited: no pass begins, and a run
\* started then is over at once, with no activation that could make a
\* remote call, write a file, or change or save the store.
C14_UnconfiguredNoPass ==
  /\ obs.started => IsConfigured(settings)
  /\ (obs.kind \in {"startRun", "debounceFire"} /\ ~obs.busy /\ ~IsConfigured(settings)) =>
       (runs = <<>> /\ ~runPromise /\ ~isRunning)

\* a run was started with no sync tag configured, and ended at once
C14_Witness ==
  /\ obs.kind = "startRun"
  /\ ~obs.busy
  /\ ~settings.tagsToSync
  /\ ~isPaused
  /\ runs = <<>>
  /\ status = "Up to date"

\* C15: while the engine stays paused no step begins a pass and no trigger
\* changes the store (its cursor is not dropped); and the step that resumes
\* calls startRun at once: it begins a pass when no run is in progress and
\* the settings are complete, and asks the run in progress for a re-run
\* otherwise.
C15_PausedIgnores ==
  [][ /\ (isPaused /\ isPaused') =>
           (~obs'.started /\ (cursorSet => cursorSet'))
      /\ (isPaused /\ ~isPaused') =>
           /\ obs'.kind = "startRun"
           /\ obs'.busy => rerunRequested'
           /\ (~obs'.busy /\ IsConfigured(settings')) => obs'.started ]_vars

\* applyRemoteFile met a local file that the user wrote since the engine last
\* uploaded or downloaded the path, and a remote revision with another content
UnsyncedLocalEdit ==
  /\ ev.op = "applyFile"
  /\ ev.preLocal.present
  /\ ev.preEdited
  /\ ev.preRemote.content # ev.preLocal.content

\* C26: a local edit is never overwritten by a remote download without a
\* conflict copy: when the user changed the local file since the last upload
\* or download of the path and a pull overwrites it with another remote
\* revision, a conflict copy of the local content has been written; also
\* after a pass that skipped the file for its size.
C26_NoSilentOverwrite ==
  (UnsyncedLocalEdit /\ ev.nLocalWrite > 0) =>
     /\ ev.nCopy = 1
     /\ copies[ev.path] = Append(ev.preCopies, StripSyncTags(ev.preLocal.content))

\* a step of pullRemoteChanges: listDelta settles, or one entry is applied
PullStep ==
  /\ pass.pc \in {"list", "pull"}
  /\ ev'.op \in {"list", "applyFile", "applyDelete"}

\* C27: when listDelta or the application of an entry raises, the pass goes
\* to its save without starting push and the stored cursor keeps its value;
\* the pull moves the stored cursor only in the step that applies the last
\* entry of the delta, to the cursor listDelta returned.
C27_CursorAfterPull ==
  [][ PullStep =>
        /\ ev'.failedAt # "none" =>
             (store'.cursor = store.cursor /\ pass'.pc = "save" /\ pass'.raised)
        /\ store'.cursor # store.cursor =>
             /\ ev'.failedAt = "none"
             /\ pass'.pc \in {"push", "save"}
             /\ pass.pc = "pull" => Len(pass.queue) = 1
             /\ pass.pc = "list" => ListDelta(W).entries = <<>>
        /\ pass'.pc = "push" => ev'.failedAt = "none" ]_vars

\* the application of an entry raised in a pass that had a stored cursor
C27_Witness ==
  /\ ev.op = "applyFile"
  /\ ev.failedAt = "download"
  /\ pass.pc = "save"
  /\ pass.cursor.set
  /\ store.cursor = pass.cursor
  /\ store.cursor.pos < remoteSeq

\* C34: when the delta reports a path deleted and the store has no entry
\* for it, applyRemoteDelete leaves the store without an entry for the path,
\* deletes no local file, writes nothing, and does not raise.
C34_UntrackedRemoteDelete ==
  (ev.op = "applyDelete" /\ ~ev.preState.tracked) =>
     /\ store.files[ev.path] = NoState
     /\ ev.nLocalDelete = 0
     /\ local[ev.path] = ev.preLocal
     /\ copies[ev.path] = ev.preCopies
     /\ ev.nUpload = 0
     /\ ev.failedAt = "none"

OversizedInPush ==
  /\ ev.op = "pushTagged"
  /\ ev.preLocal.present
  /\ ev.preLocal.content.big

RecordedAsSeen ==
  ev.preState.tracked /\ ev.preState.lastLocalMtime = ev.preLocal.mtime

SizeLimitSkip ==
  /\ ev.nUpload = 0
  /\ remote[ev.path] = ev.preRemote
  /\ local[ev.path] = ev.preLocal
  /\ store.files[ev.path] = FileState(ev.preState.dropboxRev, ev.preLocal.mtime,
                                      ev.preState.lastRemoteModified)

C37_TrackedWasTransferred ==
  \A p \in Docs : store.files[p].tracked => env.transferred[p]

(***************************************************************************)
(* Claims about fetchWithRetry, checked under SpecFetch.                   *)
(***************************************************************************)
\* C16: a call of fetchWithRetry issues at most 6 fetches before it returns
\* or raises.
C16_AtMostSixAttempts == fetchCall.fetches <= MaxAttempts

\* C16 as amended: a call counts at most 6 attempts and issues one fetch per
\* attempt, plus one more for the attempt that is repeated after a refresh:
\* at most 7 fetches with a refresh function and at most 6 without, so the
\* call always ends.
C16_BoundedAttempts ==
  /\ fetchCall.attempt <= MaxAttempts
  /\ fetchCall.fetches <= MaxAttempts + fetchCall.refreshes
  /\ fetchCall.refreshes <= 1
  /\ ~fetchCall.refreshable => fetchCall.fetches <= MaxAttempts
  /\ fetchCall.pc = "fetch" => fetchCall.fetches < MaxAttempts + 1

\* a call that issued seven fetches
C16_Witness ==
  /\ fetchCall.fetches = MaxAttempts + 1
  /\ fetchCall.pc \in {"returned", "raised"}

FetchEnded == fetchCall.pc \in {"returned", "raised"} /\ fetchCall.fetches > 0

\* C17: with a refresh function, the first 401 of a call makes the client
\* obtain one fresh token and fetch again with it (or raise, when no token
\* can be obtained); a second 401 in the call is raised as a permanent error
\* without another refresh; no call obtains more than one token; without a
\* refresh function the first 401 is raised as a permanent error.
C17_RefreshOn401 ==
  LET c == fetchCall IN
  /\ c.refreshes <= 1
  /\ (c.accessToken = "fresh") = (c.refreshedAfter401 /\ c.refreshes = 1)
  /\ (c.last.status = 401 /\ c.refreshable /\ c.n401 = 1) =>
       /\ c.refreshes = 1
       /\ c.pc = "fetch" => (c.accessToken = "fresh" /\ c.attempt = c.lastAttempt)
       /\ c.pc # "fetch" => (c.pc = "raised" /\ c.result.kind = "refreshFailed")
  /\ (c.last.status = 401 /\ c.refreshable /\ c.n401 >= 2) =>
       /\ c.pc = "raised"
       /\ c.result.kind = "permanent" /\ c.result.status = 401
       /\ c.refreshes = 1
  /\ (c.last.status = 401 /\ ~c.refreshable) =>
       /\ c.pc = "raised"
       /\ c.result.kind = "permanent" /\ c.result.status = 401
       /\ c.refreshes = 0 /\ c.n401 = 1

\* a call that refreshed on its first 401 and raised its second
C17_Witness ==
  /\ fetchCall.refreshable
  /\ fetchCall.n401 = 2
  /\ fetchCall.refreshes = 1
  /\ fetchCall.accessToken = "fresh"
  /\ fetchCall.pc = "raised"
  /\ fetchCall.result.kind = "permanent"

\* the parts of the classification that concern the unreachable error and
\* the retried statuses
C18_Retried ==
  LET c == fetchCall IN
  /\ (FetchEnded /\ c.allThrew) => c.result.kind = "unreachable"
  /\ (FetchEnded /\ c.all5xx) => c.result.kind = "unreachable"
  /\ (c.last.kind = "http" /\ (c.last.status = 429 \/ c.last.status >= 500)
        /\ c.lastAttempt < MaxAttempts) =>
       (c.pc = "fetch" /\ c.attempt = c.lastAttempt + 1)

C18_OtherStatus ==
  /\ fetchCall.last.kind = "http"
  /\ ~ResponseOk(fetchCall.last)
  /\ fetchCall.last.status # 429
  /\ fetchCall.last.status < 500

C18_RaisedPermanent ==
  /\ fetchCall.pc = "raised"
  /\ fetchCall.result = [fetchCall.last EXCEPT !.kind = "permanent"]

\* C18 as stated: fetches that throw on every attempt, or 5xx on every
\* attempt, raise the unreachable error; 429 and 5xx are retried; every other
\* non-success status is raised at once as a permanent error carrying the
\* status and the body.
C18_Original ==
  /\ C18_Retried
  /\ C18_OtherStatus => C18_RaisedPermanent

\* C18 as amended: the same, except that the first 401 of a client with a
\* refresh function is answered by a refresh, a 409 not_found of a call that
\* allows it is returned to the caller, and a 409 cursor reset of a call
\* that allows it is raised as the cursor-reset error.
C18_Classification ==
  LET c == fetchCall IN
  /\ C18_Retried
  /\ C18_OtherStatus =>
       IF c.last.status = 401 /\ c.refreshable /\ c.n401 = 1
       THEN c.pc = "fetch" \/ c.result.kind = "refreshFailed"
       ELSE IF c.last.status = 409 /\ c.allow = "notFound" /\ c.last.body = "not_found"
       THEN c.pc = "returned" /\ c.result = [c.last EXCEPT !.kind = "response"]
       ELSE IF c.last.status = 409 /\ c.allow = "cursorReset" /\ c.last.body = "reset"
       THEN c.pc = "raised" /\ c.result.kind = "cursorReset"
       ELSE C18_RaisedPermanent

\* six fetches that threw, then the unreachable error
C18_Witness ==
  /\ fetchCall.allThrew
  /\ fetchCall.fetches = MaxAttempts
  /\ fetchCall.pc = "raised"
  /\ fetchCall.result.kind = "unreachable"

\* the attempt answered last is about to be repeated after a delay
Retrying ==
  /\ fetchCall.pc = "fetch"
  /\ fetchCall.fetches > 0
  /\ fetchCall.attempt = fetchCall.lastAttempt + 1

\* C31: the delay before retry attempt k+1 is min(1000 * 2^(k-1), 30000) ms
\* after a network failure and after a transient status whose response has
\* no Retry-After header; the delay the server supplies is used otherwise.
C31_BackoffDelays ==
  Retrying =>
    /\ fetchCall.last.kind = "throw" \/ fetchCall.last.retryAfter.kind = "absent" =>
         fetchCall.delay = Min(1000 * Pow2(fetchCall.lastAttempt - 1), 30000)
    /\ fetchCall.last.retryAfter.kind = "seconds" =>
         fetchCall.delay = 1000 * fetchCall.last.retryAfter.value

\* how a call ended: success, permanent error or remote-unreachable
OutcomeKind(c) == IF c.pc = "returned" THEN "success" ELSE c.result.kind

\* C32: given the same network failures and statuses (no 401), a token
\* request and a data call make the same number of attempts with the same
\* delays and end with the same kind of outcome.
C32_SameDiscipline ==
  (oauthCall.pc # "idle" /\ oauthCall.result.kind # "invalidResponse") =>
    /\ oauthCall.pc = fetchCall.pc
    /\ oauthCall.fetches = fetchCall.fetches
    /\ oauthCall.attempt = fetchCall.attempt
    /\ oauthCall.delay = fetchCall.delay
    /\ oauthCall.pc # "fetch" => OutcomeKind(oauthCall) = OutcomeKind(fetchCall)

(***************************************************************************)
(* Claims about listDelta, checked under SpecList.                         *)
(***************************************************************************)
RECURSIVE FlattenPages(_)
FlattenPages(pages) ==
  IF pages = <<>> THEN <<>>
  ELSE FlattenPages(SubSeq(pages, 1, Len(pages) - 1)) \o pages[Len(pages)].entries

LastPage == listCall.served[Len(listCall.served)]

\* C19: cursor invalidation is invisible to the caller: after a cursor reset
\* reported on any continue call, listDelta returns only the entries of a
\* fresh full listing with its new cursor, and it never raises the
\* cursor-reset condition.
C19_ResetInvisible ==
  /\ listCall.result.kind # "cursorReset"
  /\ listCall.resets > 0 /\ listCall.pc = "returned" =>
       /\ listCall.result.entries = FlattenPages(listCall.served)
       /\ listCall.result.cursor = LastPage.cursor
       /\ listCall.result.cursor # StoredCursor

\* C20: listDelta drains all pages: while the last page has has_more set it
\* awaits a continue call made with that page's cursor; what it returns is
\* the entries of all pages of the listing in page order, none dropped or
\* duplicated, with the cursor of the last page.
C20_DrainsAllPages ==
  /\ listCall.pc = "await" /\ listCall.served # <<>> =>
       /\ LastPage.has_more
       /\ listCall.request = "continue"
       /\ listCall.sent = LastPage.cursor
  /\ listCall.pc = "returned" =>
       /\ ~LastPage.has_more
       /\ listCall.result.kind = "listing"
       /\ listCall.result.entries = FlattenPages(listCall.served)
       /\ \A i, j \in 1..Len(listCall.result.entries) :
            listCall.result.entries[i] = listCall.result.entries[j] => i = j
       /\ listCall.result.cursor = LastPage.cursor

C20_Witness ==
  /\ listCall.pc = "returned"
  /\ Len(listCall.served) = MaxPages
  /\ \A k \in 1..Len(listCall.served) : Len(listCall.served[k].entries) > 0

(***************************************************************************)
(* Claims about delete, checked under SpecFetch (calls with allowNotFound).*)
(***************************************************************************)
DeleteCall == fetchCall.allow = "notFound" /\ fetchCall.fetches > 0

\* C21: deleting an absent remote path is not an error: a 409 answer carrying
\* the not-found marker ends delete() at once with the value false; a success
\* answer ends it with true; any other 409 is raised as a permanent error.
C21_DeleteAbsent ==
  DeleteCall /\ fetchCall.last.kind = "http" =>
    /\ fetchCall.last.status = 409 /\ fetchCall.last.body = "not_found" =>
         DeleteOutcome(fetchCall) = [kind |-> "returned", value |-> FALSE]
    /\ ResponseOk(fetchCall.last) =>
         DeleteOutcome(fetchCall) = [kind |-> "returned", value |-> TRUE]
    /\ fetchCall.last.status = 409 /\ fetchCall.last.body # "not_found" =>
         DeleteOutcome(fetchCall).kind = "permanent"
    /\ fetchCall.pc = "returned" =>
         \/ ResponseOk(fetchCall.last)
         \/ fetchCall.last.status = 409 /\ fetchCall.last.body = "not_found"

C21_Witness ==
  /\ DeleteCall
  /\ fetchCall.fetches > 1
  /\ DeleteOutcome(fetchCall) = [kind |-> "returned", value |-> FALSE]

(***************************************************************************)
(* Claims about the state store, checked under SpecStore.                  *)
(***************************************************************************)
\* C22: save() is snapshot-on-save: what the persistence function holds and
\* writes is the store's state at the moment save() was called, whatever
\* setCursor, setFile and deleteFile do before save() returns; those later
\* mutations are in the in-memory state, for the next save.
C22_SnapshotOnSave ==
  /\ storeCall.pc = "saving" => Deref(storeCall, storeCall.arg) = storeCall.atCall
  /\ storeCall.pc = "idle" /\ storeCall.saves > 0 =>
       storeCall.written = storeCall.atCall

C22_Witness ==
  /\ storeCall.saves > 0
  /\ storeCall.pc = "idle"
  /\ storeCall.dirty
  /\ storeCall.written.cursor # storeCall.state.cursor
  /\ storeCall.written.files # storeCall.maps[storeCall.state.files]

\* C39: the object loaded by initialize(), the plugin's stored copy, holds
\* the pair that was loaded or last given to save() whatever setCursor,
\* setFile and deleteFile have done since, and so does what a write of the
\* plugin's data persists.
C39_PersistedOnlyThroughSave ==
  /\ storeCall.host.present =>
       Deref(storeCall, storeCall.host) = storeCall.committed
  /\ storeCall.hostWrite.done =>
       storeCall.hostWrite.value = storeCall.hostWrite.committed

(***************************************************************************)
(* Claims about tag normalization, checked under SpecTag.                  *)
(***************************************************************************)
\* C24: tag normalization is idempotent and insensitive to case and to the
\* hash prefix: normalizing the result of normalizeTag again changes nothing,
\* and "#Foo", "foo" and " FOO " have the same normal form.
C24_NormalizeIdempotent ==
  /\ tagCall.pc = "returned" => NormalizeTag(tagCall.output) = tagCall.output
  /\ NormalizeTag(<<"#", "F", "o", "o">>) = NormalizeTag(<<"f", "o", "o">>)
  /\ NormalizeTag(<<"f", "o", "o">>) = NormalizeTag(<<" ", "F", "O", "O", " ">>)

(***************************************************************************)
(* Claims about the scope computation, checked under SpecScope.            *)
(***************************************************************************)
ScopeFiles == {scopeCall.files[i] : i \in 1..Len(scopeCall.files)}

SharesTag(file) ==
  \E t \in file.tags, c \in scopeCall.tagsToSync :
    /\ NormalizeTag(t) = NormalizeTag(c)
    /\ NormalizeTag(t) # <<>>

MatchesIgnoreGlob(file) ==
  \E g \in scopeCall.ignoreGlobs : g # <<>> /\ RegexTest(GlobToRegex(g), file.path)

\* C23: the scope is exactly the documents that share a normalized tag with
\* the configuration, minus every path that matches an ignore glob and every
\* conflict-copy path, whatever their tags; with no configured tag the
\* scope is empty.
C23_ScopeExact ==
  scopeCall.pc = "returned" =>
    /\ scopeCall.result =
         {file.path : file \in {f \in ScopeFiles :
             SharesTag(f) /\ ~MatchesIgnoreGlob(f) /\ ~IsConflictCopyPath(f.path)}}
    /\ \A file \in ScopeFiles :
         MatchesIgnoreGlob(file) \/ IsConflictCopyPath(file.path) =>
           file.path \notin scopeCall.result
    /\ (\A c \in scopeCall.tagsToSync : NormalizeTag(c) = <<>>) =>
         scopeCall.result = {}

\* a tagged conflict copy and a tagged note in one vault, one of them kept
C23_Witness ==
  /\ scopeCall.pc = "returned"
  /\ scopeCall.result # {}
  /\ \E file \in ScopeFiles :
       /\ IsConflictCopyPath(file.path)
       /\ SharesTag(file)
       /\ ~MatchesIgnoreGlob(file)

(***************************************************************************)
(* Claims about self-echo suppression, checked under SpecEcho.             *)
(***************************************************************************)
EngineWriteKinds == {"modify", "create", "delete", "copy"}

\* C33: every local write of the engine finds its path marked for 5 s when
\* the write is issued; a delivery (a rename by either of its paths) for a
\* markdown path within the window enqueues nothing, and one outside any
\* window enqueues a debounced run.
C33_SelfEcho ==
  LET o == echoCall.obs
  IN /\ o.kind \in EngineWriteKinds =>
          /\ o.marked
          /\ echoCall.ignoredPaths[o.path] = echoCall.now + IgnoreWindowMs
     /\ (o.kind = "change" /\ IsMarkdownPath(o.path)) =>
          o.enqueued = (IF o.window THEN "none" ELSE "debounced")
     /\ (o.kind = "rename" /\ (IsMarkdownPath(o.path) \/ IsMarkdownPath(o.oldPath))) =>
          o.enqueued = (IF o.window THEN "none" ELSE "debounced")

\* a rename is dropped for its old path's mark alone: the new path's window
\* has expired
C33_Witness ==
  LET o == echoCall.obs
  IN /\ o.kind = "rename"
     /\ o.enqueued = "none"
     /\ WithinWindow(echoCall, o.oldPath)
     /\ echoCall.lastWrite[o.path] # NotMarked
     /\ ~WithinWindow(echoCall, o.path)

(***************************************************************************)
(* Claims about conflict-copy names, checked under SpecCopy.               *)
(***************************************************************************)
\* C38: createConflictCopy creates a path that did not exist: the base
\* conflict name when it is free, and otherwise the name with the first
\* suffix 1, 2, ... that is free; the path created is recognized by
\* isConflictCopyPath in whatever directory, so buildTaggedFileSet skips it
\* whatever its tags and push's first loop drops it from the store.
C38_ConflictCopyNames ==
  copyCall.pc = "returned" =>
    LET c == copyCall
        Taken(k) == IF k = 0 THEN c.conflictPath \in c.before
                    ELSE Suffixed(c.conflictPath, k) \in c.before
    IN /\ c.finalPath \notin c.before
       /\ c.vault = c.before \cup {c.finalPath}
       /\ \E k \in 0..MaxCopyFiles :
            /\ c.finalPath = (IF k = 0 THEN c.conflictPath
                              ELSE Suffixed(c.conflictPath, k))
            /\ \A j \in 0..(k - 1) : Taken(j)
       /\ IsConflictCopyPath(c.finalPath)
       /\ Skipped(c.finalPath, {})
       /\ \A tagged \in BOOLEAN, localChanged \in BOOLEAN :
            PushTrackedBranch(TRUE, IsConflictCopyPath(c.finalPath), tagged,
                              localChanged) = "conflictCopy"

\* the third copy of a note in a folder within one minute, for a vault
\* identifier with a character that is replaced
C38_Witness ==
  /\ copyCall.pc = "returned"
  /\ copyCall.finalPath = Suffixed(copyCall.conflictPath, 2)
  /\ copyCall.vaultId = <<"v", ")">>
  /\ LastSlash(copyCall.finalPath) > 0

(***************************************************************************)
(* Claims about path translation, checked under SpecPath.                  *)
(***************************************************************************)
\* the names between the slashes of a path, empty ones dropped
RECURSIVE Segments(_, _)
Segments(path, current) ==
  IF path = <<>> THEN (IF current = <<>> THEN <<>> ELSE <<current>>)
  ELSE IF path[1] \in {"/", "\\"}
  THEN (IF current = <<>> THEN <<>> ELSE <<current>>) \o Segments(Tail1(path), <<>>)
  ELSE Segments(Tail1(path), Append(current, path[1]))

\* the remote path names something inside the base folder
StrictlyUnder(base, remotePath) ==
  LET b == Segments(Trim(base), <<>>)
      r == Segments(remotePath, <<>>)
  IN Len(b) < Len(r) /\ SubSeq(r, 1, Len(b)) = b

IsRoot(base) == Segments(Trim(base), <<>>) = <<>>

\* C40 as stated: translating a normalized local path without empty segments
\* to the remote side and back gives the path again, and toLocalPath gives
\* null for the base itself and for every remote path not strictly under it.
C40_Original ==
  /\ pathCall.pc = "roundTrip" =>
       pathCall.toLocal = [null |-> FALSE, path |-> pathCall.localPath]
  /\ (pathCall.pc = "toLocal" /\ ~StrictlyUnder(pathCall.base, pathCall.remotePath)) =>
       pathCall.toLocal = Null

\* C40: the same for local paths that do not end in white space, toLocalPath
\* giving null or the empty path for the root when the base is the root.
C40_PathTranslation ==
  /\ (pathCall.pc = "roundTrip"
        /\ pathCall.localPath[Len(pathCall.localPath)] # " ") =>
       pathCall.toLocal = [null |-> FALSE, path |-> pathCall.localPath]
  /\ (pathCall.pc = "toLocal" /\ ~StrictlyUnder(pathCall.base, pathCall.remotePath)) =>
       IF IsRoot(pathCall.base)
       THEN pathCall.toLocal.path = <<>>
       ELSE pathCall.toLocal = Null

\* the sibling of the base that shares the base as a string prefix
C40_Witness ==
  /\ pathCall.pc = "toLocal"
  /\ pathCall.base = <<"/", "foo">>
  /\ pathCall.remotePath = <<"/", "foo", "bar", "/", "foo">>
  /\ pathCall.toLocal = Null

====
